---- MODULE Spec2Model ----
(***************************************************************************)
(* Entity resolution of scripts/build_site.py: merge_company_variants and  *)
(* the name normalizer, compatibility oracle, non-company predicate and    *)
(* market identity extractor it consults, and the story matcher            *)
(* build_dailybrief_story_mentions with its alias rules, map and specs.    *)
(***************************************************************************)
EXTENDS Integers, Sequences, FiniteSets, TLC

LEGAL_SUFFIX_TOKENS ==
    {<<"c", "o">>,
     <<"c", "o", "m", "p", "a", "n", "y">>,
     <<"c", "o", "r", "p">>,
     <<"c", "o", "r", "p", "o", "r", "a", "t", "i", "o", "n">>,
     <<"i", "n", "c">>,
     <<"l", "i", "m", "i", "t", "e", "d">>,
     <<"l", "t", "d">>,
     <<"p", "l", "c">>,
     <<"p", "r", "i", "v", "a", "t", "e">>,
     <<"p", "v", "t">>}

SOFT_TOKENS ==
    {<<"g", "l", "o", "b", "a", "l">>,
     <<"g", "r", "o", "u", "p">>,
     <<"h", "o", "l", "d", "i", "n", "g">>,
     <<"h", "o", "l", "d", "i", "n", "g", "s">>,
     <<"i", "n", "d", "i", "a">>,
     <<"i", "n", "d", "i", "a", "n">>,
     <<"i", "n", "t", "e", "r", "n", "a", "t", "i", "o", "n", "a", "l">>}

INITIALISM_IGNORED_TOKENS ==
    {<<"a", "n", "d">>,
     <<"o", "f">>,
     <<"t", "h", "e">>}

COMPANY_HINT_TOKENS ==
    {<<"b", "a", "n", "c", "o", "r", "p">>,
     <<"b", "a", "n", "c", "s", "h", "a", "r", "e", "s">>,
     <<"b", "a", "n", "k">>,
     <<"b", "e", "v", "e", "r", "a", "g", "e", "s">>,
     <<"b", "i", "o">>,
     <<"b", "i", "o", "s", "c", "i", "e", "n", "c", "e", "s">>,
     <<"c", "a", "p", "i", "t", "a", "l">>,
     <<"c", "h", "e", "m", "i", "c", "a", "l", "s">>,
     <<"c", "o", "m", "m", "u", "n", "i", "c", "a", "t", "i", "o", "n", "s">>,
     <<"c", "o", "m", "p", "a", "n", "y">>,
     <<"c", "o", "r", "p">>,
     <<"c", "o", "r", "p", "o", "r", "a", "t", "i", "o", "n">>,
     <<"e", "n", "e", "r", "g", "y">>,
     <<"e", "n", "g", "i", "n", "e", "e", "r", "i", "n", "g">>,
     <<"f", "i", "n", "a", "n", "c", "i", "a", "l">>,
     <<"f", "o", "o", "d", "s">>,
     <<"g", "r", "o", "u", "p">>,
     <<"h", "o", "l", "d", "i", "n", "g">>,
     <<"h", "o", "l", "d", "i", "n", "g", "s">>,
     <<"i", "n", "c">>,
     <<"i", "n", "d", "u", "s", "t", "r", "i", "e", "s">>,
     <<"i", "n", "s", "u", "r", "a", "n", "c", "e">>,
     <<"i", "n", "t", "e", "r", "n", "a", "t", "i", "o", "n", "a", "l">>,
     <<"l", "a", "b", "s">>,
     <<"l", "i", "m", "i", "t", "e", "d">>,
     <<"l", "t", "d">>,
     <<"m", "o", "t", "o", "r", "s">>,
     <<"p", "h", "a", "r", "m", "a">>,
     <<"p", "h", "a", "r", "m", "a", "c", "e", "u", "t", "i", "c", "a", "l", "s">>,
     <<"p", "l", "c">>,
     <<"p", "r", "i", "v", "a", "t", "e">>,
     <<"p", "v", "t">>,
     <<"r", "e", "t", "a", "i", "l">>,
     <<"s", "a">>,
     <<"s", "y", "s", "t", "e", "m", "s">>,
     <<"t", "e", "c", "h", "n", "o", "l", "o", "g", "i", "e", "s">>,
     <<"t", "e", "c", "h", "n", "o", "l", "o", "g", "y">>}

SENTENCE_START_TOKENS ==
    {<<"a", "r", "e">>,
     <<"b", "r", "o", "a", "d", "e", "r">>,
     <<"c", "h", "e", "c", "k">>,
     <<"g", "i", "v", "e", "n">>,
     <<"h", "a", "v", "e">>,
     <<"i", "n", "t", "r", "o", "d", "u", "c", "i", "n", "g">>,
     <<"o", "u", "r">>,
     <<"s", "e", "c", "t", "o", "r", "a", "l">>,
     <<"t", "h", "a", "t">>,
     <<"t", "h", "e", "s", "e">>,
     <<"t", "h", "i", "s">>,
     <<"t", "h", "o", "s", "e">>,
     <<"w", "e">>,
     <<"w", "e", "'", "v", "e">>}

TOKEN_EQUIVALENTS ==
    (<<"t", "e", "c", "h">> :> <<"t", "e", "c", "h", "n", "o", "l", "o", "g", "y">>) @@
    (<<"t", "e", "c", "h", "n", "o", "l", "o", "g", "i", "e", "s">> :> <<"t", "e", "c", "h", "n", "o", "l", "o", "g", "y">>) @@
    (<<"i", "n", "d", "s">> :> <<"i", "n", "d", "u", "s", "t", "r", "i", "e", "s">>) @@
    (<<"h", "a", "t", "h", "a", "w", "a", "y">> :> <<"h", "a", "t", "h", "w", "a", "y">>) @@
    (<<"p", "r", "o", "d">> :> <<"p", "r", "o", "d", "u", "c", "t", "s">>)

ACRONYM_EXPANSIONS ==
    (<<"a", "m", "c">> :> <<<<"a", "s", "s", "e", "t">>, <<"m", "a", "n", "a", "g", "e", "m", "e", "n", "t">>, <<"c", "o", "m", "p", "a", "n", "y">>>>)

LowerLetters == {"a", "b", "c", "d", "e", "f", "g", "h", "i", "j", "k", "l", "m", "n", "o", "p", "q", "r", "s", "t", "u", "v", "w", "x", "y", "z"}

UpperLetters == {"A", "B", "C", "D", "E", "F", "G", "H", "I", "J", "K", "L", "M", "N", "O", "P", "Q", "R", "S", "T", "U", "V", "W", "X", "Y", "Z"}

Digits == {"0", "1", "2", "3", "4", "5", "6", "7", "8", "9"}

ToLower ==
    ("A" :> "a") @@ ("B" :> "b") @@ ("C" :> "c") @@ ("D" :> "d") @@ ("E" :> "e") @@ ("F" :> "f") @@ ("G" :> "g") @@ ("H" :> "h") @@ ("I" :> "i") @@ ("J" :> "j") @@ ("K" :> "k") @@ ("L" :> "l") @@ ("M" :> "m") @@ ("N" :> "n") @@ ("O" :> "o") @@ ("P" :> "p") @@ ("Q" :> "q") @@ ("R" :> "r") @@ ("S" :> "s") @@ ("T" :> "t") @@ ("U" :> "u") @@ ("V" :> "v") @@ ("W" :> "w") @@ ("X" :> "x") @@ ("Y" :> "y") @@ ("Z" :> "z")

Ord ==
    (" " :> 32) @@ ("&" :> 38) @@ ("'" :> 39) @@ ("," :> 44) @@ ("-" :> 45) @@ ("." :> 46) @@ ("/" :> 47) @@ ("0" :> 48) @@ ("1" :> 49) @@ ("2" :> 50) @@ ("3" :> 51) @@ ("4" :> 52) @@ ("5" :> 53) @@ ("6" :> 54) @@ ("7" :> 55) @@ ("8" :> 56) @@ ("9" :> 57) @@ (":" :> 58) @@ ("A" :> 65) @@ ("B" :> 66) @@ ("C" :> 67) @@ ("D" :> 68) @@ ("E" :> 69) @@ ("F" :> 70) @@ ("G" :> 71) @@ ("H" :> 72) @@ ("I" :> 73) @@ ("J" :> 74) @@ ("K" :> 75) @@ ("L" :> 76) @@ ("M" :> 77) @@ ("N" :> 78) @@ ("O" :> 79) @@ ("P" :> 80) @@ ("Q" :> 81) @@ ("R" :> 82) @@ ("S" :> 83) @@ ("T" :> 84) @@ ("U" :> 85) @@ ("V" :> 86) @@ ("W" :> 87) @@ ("X" :> 88) @@ ("Y" :> 89) @@ ("Z" :> 90) @@ ("_" :> 95) @@ ("a" :> 97) @@ ("b" :> 98) @@ ("c" :> 99) @@ ("d" :> 100) @@ ("e" :> 101) @@ ("f" :> 102) @@ ("g" :> 103) @@ ("h" :> 104) @@ ("i" :> 105) @@ ("j" :> 106) @@ ("k" :> 107) @@ ("l" :> 108) @@ ("m" :> 109) @@ ("n" :> 110) @@ ("o" :> 111) @@ ("p" :> 112) @@ ("q" :> 113) @@ ("r" :> 114) @@ ("s" :> 115) @@ ("t" :> 116) @@ ("u" :> 117) @@ ("v" :> 118) @@ ("w" :> 119) @@ ("x" :> 120) @@ ("y" :> 121) @@ ("z" :> 122)
Text ==
    ("Acme" :> <<"A", "c", "m", "e">>) @@
    ("Acme Acme" :> <<"A", "c", "m", "e", " ", "A", "c", "m", "e">>) @@
    ("Acme Group" :> <<"A", "c", "m", "e", " ", "G", "r", "o", "u", "p">>) @@
    ("Acme India" :> <<"A", "c", "m", "e", " ", "I", "n", "d", "i", "a">>) @@
    ("Acme Limited" :> <<"A", "c", "m", "e", " ", "L", "i", "m", "i", "t", "e", "d">>) @@
    ("Acme Ltd" :> <<"A", "c", "m", "e", " ", "L", "t", "d">>) @@
    ("Comment on Acme" :> <<"C", "o", "m", "m", "e", "n", "t", " ", "o", "n", " ", "A", "c", "m", "e">>) @@
    ("Reliance Consumer Products" :> <<"R", "e", "l", "i", "a", "n", "c", "e", " ", "C", "o", "n", "s", "u", "m", "e", "r", " ", "P", "r", "o", "d", "u", "c", "t", "s">>) @@
    ("Reliance Industries" :> <<"R", "e", "l", "i", "a", "n", "c", "e", " ", "I", "n", "d", "u", "s", "t", "r", "i", "e", "s">>) @@
    ("Zen" :> <<"Z", "e", "n">>) @@
    ("ACME GROUP" :> <<"A", "C", "M", "E", " ", "G", "R", "O", "U", "P">>) @@
    ("Reliance Industries Ltd" :> <<"R", "e", "l", "i", "a", "n", "c", "e", " ", "I", "n", "d", "u", "s", "t", "r", "i", "e", "s", " ", "L", "t", "d">>) @@
    ("group" :> <<"g", "r", "o", "u", "p">>)

IdText ==
    ("acme" :> <<"a", "c", "m", "e">>) @@
    ("acme-acme" :> <<"a", "c", "m", "e", "-", "a", "c", "m", "e">>) @@
    ("acme-group" :> <<"a", "c", "m", "e", "-", "g", "r", "o", "u", "p">>) @@
    ("acme-india" :> <<"a", "c", "m", "e", "-", "i", "n", "d", "i", "a">>) @@
    ("acme-limited" :> <<"a", "c", "m", "e", "-", "l", "i", "m", "i", "t", "e", "d">>) @@
    ("acme-ltd" :> <<"a", "c", "m", "e", "-", "l", "t", "d">>) @@
    ("comment-on-acme" :> <<"c", "o", "m", "m", "e", "n", "t", "-", "o", "n", "-", "a", "c", "m", "e">>) @@
    ("reliance-consumer-products" :> <<"r", "e", "l", "i", "a", "n", "c", "e", "-", "c", "o", "n", "s", "u", "m", "e", "r", "-", "p", "r", "o", "d", "u", "c", "t", "s">>) @@
    ("reliance-industries" :> <<"r", "e", "l", "i", "a", "n", "c", "e", "-", "i", "n", "d", "u", "s", "t", "r", "i", "e", "s">>) @@
    ("zen" :> <<"z", "e", "n">>)

ParsedUrl ==
    ("https://zerodha.com/markets/stocks/NSE/ACME/" :>
        [netloc |-> <<"z", "e", "r", "o", "d", "h", "a", ".", "c", "o", "m">>,
         path |-> <<"/", "m", "a", "r", "k", "e", "t", "s", "/", "s", "t", "o", "c", "k", "s", "/", "N", "S", "E", "/", "A", "C", "M", "E", "/">>]) @@
    ("https://zerodha.com/markets/stocks/acme-group/" :>
        [netloc |-> <<"z", "e", "r", "o", "d", "h", "a", ".", "c", "o", "m">>,
         path |-> <<"/", "m", "a", "r", "k", "e", "t", "s", "/", "s", "t", "o", "c", "k", "s", "/", "a", "c", "m", "e", "-", "g", "r", "o", "u", "p", "/">>]) @@
    ("https://www.zerodha.com/markets/stocks/nse/reliance/" :>
        [netloc |-> <<"w", "w", "w", ".", "z", "e", "r", "o", "d", "h", "a", ".", "c", "o", "m">>,
         path |-> <<"/", "m", "a", "r", "k", "e", "t", "s", "/", "s", "t", "o", "c", "k", "s", "/", "n", "s", "e", "/", "r", "e", "l", "i", "a", "n", "c", "e", "/">>]) @@
    ("https://zerodha.com/markets/stocks/BSE/ACME/" :>
        [netloc |-> <<"z", "e", "r", "o", "d", "h", "a", ".", "c", "o", "m">>,
         path |-> <<"/", "m", "a", "r", "k", "e", "t", "s", "/", "s", "t", "o", "c", "k", "s", "/", "B", "S", "E", "/", "A", "C", "M", "E", "/">>]) @@
    ("https://thechatter.zerodha.com/markets/stocks/BSE/ZEN/" :>
        [netloc |-> <<"t", "h", "e", "c", "h", "a", "t", "t", "e", "r", ".", "z", "e", "r", "o", "d", "h", "a", ".", "c", "o", "m">>,
         path |-> <<"/", "m", "a", "r", "k", "e", "t", "s", "/", "s", "t", "o", "c", "k", "s", "/", "B", "S", "E", "/", "Z", "E", "N", "/">>])
StoryText ==
    ("" :> <<>>) @@
    ("ACME" :> <<"A", "C", "M", "E">>) @@
    ("Acme Corp" :> <<"A", "c", "m", "e", " ", "C", "o", "r", "p">>) @@
    ("Zen Tech" :> <<"Z", "e", "n", " ", "T", "e", "c", "h">>) @@
    ("Acme & Co" :> <<"A", "c", "m", "e", " ", "&", " ", "C", "o">>) @@
    ("Acme India" :> <<"A", "c", "m", "e", " ", "I", "n", "d", "i", "a">>) @@
    ("AC" :> <<"A", "C">>) @@
    ("42" :> <<"4", "2">>) @@
    ("https://thedailybrief.zerodha.com/p/acme-results" :> <<"h", "t", "t", "p", "s", ":", "/", "/", "t", "h", "e", "d", "a", "i", "l", "y", "b", "r", "i", "e", "f", ".", "z", "e", "r", "o", "d", "h", "a", ".", "c", "o", "m", "/", "p", "/", "a", "c", "m", "e", "-", "r", "e", "s", "u", "l", "t", "s">>) @@
    ("https://thedailybrief.zerodha.com/p/markets-today" :> <<"h", "t", "t", "p", "s", ":", "/", "/", "t", "h", "e", "d", "a", "i", "l", "y", "b", "r", "i", "e", "f", ".", "z", "e", "r", "o", "d", "h", "a", ".", "c", "o", "m", "/", "p", "/", "m", "a", "r", "k", "e", "t", "s", "-", "t", "o", "d", "a", "y">>) @@
    ("Acme results" :> <<"A", "c", "m", "e", " ", "r", "e", "s", "u", "l", "t", "s">>) @@
    ("Markets today" :> <<"M", "a", "r", "k", "e", "t", "s", " ", "t", "o", "d", "a", "y">>) @@
    ("Acme beats estimates" :> <<"A", "c", "m", "e", " ", "b", "e", "a", "t", "s", " ", "e", "s", "t", "i", "m", "a", "t", "e", "s">>) @@
    ("2026-01-05" :> <<"2", "0", "2", "6", "-", "0", "1", "-", "0", "5">>) @@
    ("2026-01-06" :> <<"2", "0", "2", "6", "-", "0", "1", "-", "0", "6">>) @@
    ("s1" :> <<"s", "1">>) @@
    ("s2" :> <<"s", "2">>) @@
    ("substack" :> <<"s", "u", "b", "s", "t", "a", "c", "k">>) @@
    ("Acme India & Acme Group rallied; ACME fell. Acme India again." :> <<"A", "c", "m", "e", " ", "I", "n", "d", "i", "a", " ", "&", " ", "A", "c", "m", "e", " ", "G", "r", "o", "u", "p", " ", "r", "a", "l", "l", "i", "e", "d", ";", " ", "A", "C", "M", "E", " ", "f", "e", "l", "l", ".", " ", "A", "c", "m", "e", " ", "I", "n", "d", "i", "a", " ", "a", "g", "a", "i", "n", ".">>) @@
    ("Zen Tech (ZEN) and Reliance Industries met Acme Corp" :> <<"Z", "e", "n", " ", "T", "e", "c", "h", " ", "(", "Z", "E", "N", ")", " ", "a", "n", "d", " ", "R", "e", "l", "i", "a", "n", "c", "e", " ", "I", "n", "d", "u", "s", "t", "r", "i", "e", "s", " ", "m", "e", "t", " ", "A", "c", "m", "e", " ", "C", "o", "r", "p">>) @@
    ("acme acme acme" :> <<"a", "c", "m", "e", " ", "a", "c", "m", "e", " ", "a", "c", "m", "e">>) @@
    ("!!!" :> <<"!", "!", "!">>) @@
    ("India Acme" :> <<"I", "n", "d", "i", "a", " ", "A", "c", "m", "e">>) @@
    ("Acme India Acme India" :> <<"A", "c", "m", "e", " ", "I", "n", "d", "i", "a", " ", "A", "c", "m", "e", " ", "I", "n", "d", "i", "a">>) @@
    ("s3" :> <<"s", "3">>)
ACRONYM_SUFFIX_STRIP_TOKENS ==
    LEGAL_SUFFIX_TOKENS \ {<<"c", "o", "m", "p", "a", "n", "y">>, <<"c", "o">>}

(***************************************************************************)
(* Python str values are sequences of one-character strings.  Ord gives   *)
(* the code point of each character of the alphabet, ToLower the result of *)
(* str.lower() on the upper-case letters.                                  *)
(***************************************************************************)
lower_char(c) ==
    IF c \in DOMAIN ToLower THEN ToLower[c] ELSE c

\* str.lower()
lower(s) ==
    [i \in 1..Len(s) |-> lower_char(s[i])]

ToUpper ==
    [c \in LowerLetters |-> CHOOSE u \in UpperLetters : ToLower[u] = c]

\* str.upper()
upper(s) ==
    [i \in 1..Len(s) |-> IF s[i] \in LowerLetters THEN ToUpper[s[i]] ELSE s[i]]

\* Python's < on str: lexicographic by code point, a proper prefix is smaller.
RECURSIVE StrLess(_, _)
StrLess(a, b) ==
    IF b = <<>> THEN FALSE
    ELSE IF a = <<>> THEN TRUE
    ELSE IF Ord[Head(a)] # Ord[Head(b)] THEN Ord[Head(a)] < Ord[Head(b)]
    ELSE StrLess(Tail(a), Tail(b))

\* re.findall(r"[cls]+", s): the maximal runs of characters of cls, in order.
RECURSIVE FindAllFrom(_, _, _, _)
FindAllFrom(s, cls, i, cur) ==
    IF i > Len(s)
    THEN (IF cur = <<>> THEN <<>> ELSE <<cur>>)
    ELSE IF s[i] \in cls
         THEN FindAllFrom(s, cls, i + 1, Append(cur, s[i]))
         ELSE (IF cur = <<>> THEN <<>> ELSE <<cur>>) \o FindAllFrom(s, cls, i + 1, <<>>)

findall(cls, s) ==
    FindAllFrom(s, cls, 1, <<>>)

\* sep.join(parts)
RECURSIVE join(_, _)
join(sep, parts) ==
    IF parts = <<>> THEN <<>>
    ELSE IF Len(parts) = 1 THEN parts[1]
    ELSE parts[1] \o sep \o join(sep, Tail(parts))

\* re.sub(r"[^cls]+", rep, s): every maximal run outside cls becomes rep.
RECURSIVE SubRunsFrom(_, _, _, _)
SubRunsFrom(s, cls, rep, i) ==
    IF i > Len(s) THEN <<>>
    ELSE IF s[i] \in cls
         THEN <<s[i]>> \o SubRunsFrom(s, cls, rep, i + 1)
         ELSE IF i > 1 /\ s[i - 1] \notin cls
              THEN SubRunsFrom(s, cls, rep, i + 1)
              ELSE rep \o SubRunsFrom(s, cls, rep, i + 1)

\* str.strip(): leading and trailing whitespace removed.
RECURSIVE lstrip(_)
lstrip(s) ==
    IF s # <<>> /\ Head(s) = " " THEN lstrip(Tail(s)) ELSE s

RECURSIVE rstrip(_)
rstrip(s) ==
    IF s # <<>> /\ s[Len(s)] = " " THEN rstrip(SubSeq(s, 1, Len(s) - 1)) ELSE s

strip(s) ==
    rstrip(lstrip(s))

\* set(tokens)
SeqToSet(seq) ==
    {seq[i] : i \in 1..Len(seq)}

AlnumLower ==
    LowerLetters \cup Digits

_normalize_name_key(name) ==
    strip(SubRunsFrom(lower(name), AlnumLower, <<" ">>, 1))

_name_tokens(name) ==
    LET raw_tokens == findall(AlnumLower, lower(name))
    IN [i \in 1..Len(raw_tokens) |->
           IF raw_tokens[i] \in DOMAIN TOKEN_EQUIVALENTS
           THEN TOKEN_EQUIVALENTS[raw_tokens[i]]
           ELSE raw_tokens[i]]

_has_legal_suffix(name) ==
    LET tokens == _name_tokens(name)
    IN tokens # <<>> /\ tokens[Len(tokens)] \in LEGAL_SUFFIX_TOKENS

RECURSIVE _strip_suffix_tokens(_, _)
_strip_suffix_tokens(tokens, suffixes) ==
    IF tokens # <<>> /\ tokens[Len(tokens)] \in suffixes
    THEN _strip_suffix_tokens(SubSeq(tokens, 1, Len(tokens) - 1), suffixes)
    ELSE tokens

RECURSIVE ExpandFrom(_, _)
ExpandFrom(tokens, index) ==
    IF index > Len(tokens) THEN <<>>
    ELSE (IF tokens[index] \in DOMAIN ACRONYM_EXPANSIONS /\ index = Len(tokens)
          THEN ACRONYM_EXPANSIONS[tokens[index]]
          ELSE <<tokens[index]>>) \o ExpandFrom(tokens, index + 1)

_expand_alias_tokens(tokens) ==
    ExpandFrom(tokens, 1)

_normalized_name_tokens(name) ==
    _strip_suffix_tokens(_expand_alias_tokens(_name_tokens(name)), LEGAL_SUFFIX_TOKENS)

_company_name_key(name) ==
    join(<<" ">>, _normalized_name_tokens(name))

_rule_key(name) ==
    LET tokens == _normalized_name_tokens(name)
    IN join(<<" ">>, tokens)

\* Number of leading positions at which the two token lists agree.
RECURSIVE SharedPrefix(_, _)
SharedPrefix(a, b) ==
    IF a = <<>> \/ b = <<>> \/ Head(a) # Head(b) THEN 0
    ELSE 1 + SharedPrefix(Tail(a), Tail(b))

\* "".join(token[0] for token in tokens if token not in skipped)
RECURSIVE Initials(_, _)
Initials(tokens, skipped) ==
    IF tokens = <<>> THEN <<>>
    ELSE (IF Head(tokens) \in skipped \/ Head(tokens) = <<>>
          THEN <<>> ELSE <<Head(tokens)[1]>>) \o Initials(Tail(tokens), skipped)

_matches_trailing_initialism(short_tokens, long_tokens) ==
    LET shared_prefix == SharedPrefix(short_tokens, long_tokens)
        short_tail == SubSeq(short_tokens, shared_prefix + 1, Len(short_tokens))
        long_tail == SubSeq(long_tokens, shared_prefix + 1, Len(long_tokens))
    IN IF Len(short_tail) # 1 \/ Len(long_tail) < 2 THEN FALSE
       ELSE LET short_value == short_tail[1]
                initials == Initials(long_tail, {})
            IN Len(short_value) >= 2 /\ short_value = initials

_matches_full_initialism(short_tokens, long_tokens) ==
    IF Len(short_tokens) # 1 \/ Len(long_tokens) < 2 THEN FALSE
    ELSE LET short_value == short_tokens[1]
             initials == Initials(long_tokens, INITIALISM_IGNORED_TOKENS)
         IN Len(short_value) >= 2 /\ short_value = initials

_is_soft_extension(short_tokens, long_tokens) ==
    IF short_tokens = <<>> \/ Len(short_tokens) > Len(long_tokens) THEN FALSE
    ELSE IF SubSeq(long_tokens, 1, Len(short_tokens)) # short_tokens THEN FALSE
    ELSE LET tail == SubSeq(long_tokens, Len(short_tokens) + 1, Len(long_tokens))
         IN tail # <<>> /\ \A i \in 1..Len(tail) : tail[i] \in SOFT_TOKENS

(***************************************************************************)
(* difflib.SequenceMatcher(None, a, b).ratio() without junk (the automatic *)
(* junk heuristic needs len(b) >= 200).  find_longest_match returns the    *)
(* longest block a[i:i+k] = b[j:j+k] inside the window; of the longest, the *)
(* one starting earliest in a, then earliest in b.  The matching blocks    *)
(* are the longest block and, recursively, those left and right of it.     *)
(***************************************************************************)
RECURSIVE MatchLen(_, _, _, _, _, _)
MatchLen(a, b, i, j, ahi, bhi) ==
    IF i > ahi \/ j > bhi \/ a[i] # b[j] THEN 0
    ELSE 1 + MatchLen(a, b, i + 1, j + 1, ahi, bhi)

\* Of the candidate starts, those of the longest block; of these the one
\* earliest in a, then earliest in b.
EarliestLongest(a, b, ahi, bhi, cand, bestsize) ==
    LET besti == CHOOSE i \in {p[1] : p \in cand} :
                    /\ \E p \in cand : p[1] = i /\ MatchLen(a, b, p[1], p[2], ahi, bhi) = bestsize
                    /\ \A p \in cand :
                          MatchLen(a, b, p[1], p[2], ahi, bhi) = bestsize => i <= p[1]
    IN <<besti,
         CHOOSE j \in {p[2] : p \in cand} :
            /\ <<besti, j>> \in cand
            /\ MatchLen(a, b, besti, j, ahi, bhi) = bestsize
            /\ \A p \in cand :
                  (p[1] = besti /\ MatchLen(a, b, p[1], p[2], ahi, bhi) = bestsize) => j <= p[2],
         bestsize>>

LongestAmong(a, b, alo, ahi, blo, bhi, cand) ==
    IF cand = {} THEN <<alo, blo, 0>>
    ELSE EarliestLongest(a, b, ahi, bhi, cand,
                         CHOOSE k \in {MatchLen(a, b, p[1], p[2], ahi, bhi) : p \in cand} :
                            \A p \in cand : MatchLen(a, b, p[1], p[2], ahi, bhi) <= k)

\* Windows are inclusive index ranges alo..ahi and blo..bhi.
find_longest_match(a, b, alo, ahi, blo, bhi) ==
    LongestAmong(a, b, alo, ahi, blo, bhi,
                 {<<i, j>> \in (alo..ahi) \X (blo..bhi) : a[i] = b[j]})

RECURSIVE MatchedCount(_, _, _, _, _, _)
\* The block m = <<i, j, k>> and the blocks left and right of it.
MatchedAround(a, b, alo, ahi, blo, bhi, m) ==
    IF m[3] = 0 THEN 0
    ELSE m[3] + MatchedCount(a, b, alo, m[1] - 1, blo, m[2] - 1)
              + MatchedCount(a, b, m[1] + m[3], ahi, m[2] + m[3], bhi)

MatchedCount(a, b, alo, ahi, blo, bhi) ==
    IF alo > ahi \/ blo > bhi THEN 0
    ELSE MatchedAround(a, b, alo, ahi, blo, bhi,
                       find_longest_match(a, b, alo, ahi, blo, bhi))

\* ratio() >= percent / 100, with ratio() = 2.0 * matches / (len(a) + len(b))
\* and ratio() = 1.0 when both are empty.
RatioAtLeast(a, b, percent) ==
    IF Len(a) + Len(b) = 0 THEN TRUE
    ELSE 200 * MatchedCount(a, b, 1, Len(a), 1, Len(b)) >= percent * (Len(a) + Len(b))

SIMILARITY_PERCENT ==
    93

\* Lines 362-379: the rules on the shorter and the longer token list.
ShorterLongerCompatible(shorter, longer, left_for_acronym, right_for_acronym) ==
    IF Len(shorter) >= 3 /\ SubSeq(longer, 1, Len(shorter)) = shorter THEN TRUE
    ELSE IF Len(shorter) = 1 /\ _is_soft_extension(shorter, longer) THEN TRUE
    ELSE IF Len(shorter) >= 2 /\ SeqToSet(shorter) \cap SeqToSet(longer) = SeqToSet(shorter)
    THEN TRUE
    ELSE \/ _matches_trailing_initialism(left_for_acronym, right_for_acronym)
         \/ _matches_trailing_initialism(right_for_acronym, left_for_acronym)
         \/ _matches_full_initialism(left_for_acronym, right_for_acronym)
         \/ _matches_full_initialism(right_for_acronym, left_for_acronym)

\* Lines 345-379: the rules on the normalized token lists.
NormalizedCompatible(left_normalized, right_normalized, left_for_acronym, right_for_acronym) ==
    IF left_normalized = <<>> \/ right_normalized = <<>> THEN FALSE
    ELSE IF left_normalized = right_normalized THEN TRUE
    ELSE IF join(<<>>, left_normalized) = join(<<>>, right_normalized) THEN TRUE
    ELSE IF RatioAtLeast(join(<<" ">>, left_normalized),
                         join(<<" ">>, right_normalized), SIMILARITY_PERCENT) THEN TRUE
    ELSE IF Len(left_normalized) > Len(right_normalized)
    THEN ShorterLongerCompatible(right_normalized, left_normalized,
                                 left_for_acronym, right_for_acronym)
    ELSE ShorterLongerCompatible(left_normalized, right_normalized,
                                 left_for_acronym, right_for_acronym)

\* Lines 343-379: the lexical rules applied when no block or alias pair decides.
NamesLexicallyCompatible(left_name, right_name) ==
    NormalizedCompatible(
        _normalized_name_tokens(left_name),
        _normalized_name_tokens(right_name),
        _strip_suffix_tokens(_name_tokens(left_name), ACRONYM_SUFFIX_STRIP_TOKENS),
        _strip_suffix_tokens(_name_tokens(right_name), ACRONYM_SUFFIX_STRIP_TOKENS))

(***************************************************************************)
(* Non-company predicate.                                                  *)
(***************************************************************************)
_has_company_hint(words) ==
    \E i \in 1..Len(words) : words[i] \in COMPANY_HINT_TOKENS

\* Characters of the class [A-Za-z0-9&'.-] of the word pattern.
WordPatternChars ==
    LowerLetters \cup UpperLetters \cup Digits \cup {"&", "'", ".", "-"}

\* Characters matched by \w; \b is a position between a \w and a non-\w
\* character (or the start or end of the text).
RegexWordChars ==
    LowerLetters \cup UpperLetters \cup Digits \cup {"_"}

IsBoundary(s, pos) ==
    LET before == pos > 1 /\ s[pos - 1] \in RegexWordChars
        after == pos <= Len(s) /\ s[pos] \in RegexWordChars
    IN before # after

StartsWithAt(s, pos, lit) ==
    /\ pos + Len(lit) - 1 <= Len(s)
    /\ SubSeq(s, pos, pos + Len(lit) - 1) = lit

\* re.search(r"\bcomments?\s+on\b", s): IsBoundary is taken at the position
\* of the next character to match.
SearchCommentsOn(s) ==
    \E p \in 1..Len(s) :
        /\ IsBoundary(s, p)
        /\ StartsWithAt(s, p, <<"c", "o", "m", "m", "e", "n", "t">>)
        /\ \E q \in {p + 7, p + 8} :
              /\ q = p + 8 => StartsWithAt(s, p + 7, <<"s">>)
              /\ \E r \in (q + 1)..Len(s) :
                    /\ \A t \in q..(r - 1) : s[t] = " "
                    /\ StartsWithAt(s, r, <<"o", "n">>)
                    /\ IsBoundary(s, r + 2)

_looks_like_topic_or_sentence(name) ==
    LET found == findall(WordPatternChars, name)
        words == [i \in 1..Len(found) |-> lower(found[i])]
    IN IF words = <<>> THEN FALSE
       ELSE LET first_word == words[1]
                lowered == join(<<" ">>, words)
                on == <<"o", "n">>
            IN IF first_word \in SENTENCE_START_TOKENS /\ Len(words) > 4 THEN TRUE
               ELSE IF SearchCommentsOn(lowered) THEN TRUE
               ELSE IF on \in SeqToSet(words) /\ Len(words) >= 4 /\ ~_has_company_hint(words)
                    THEN TRUE
               ELSE IF /\ \E i \in 1..Len(words) :
                              words[i] \in {<<"m", "i", "n", "i", "s", "t", "e", "r">>,
                                            <<"s", "e", "c", "r", "e", "t", "a", "r", "y">>}
                       /\ on \in SeqToSet(words)
                    THEN TRUE
               ELSE FALSE

\* pattern.search(name) for a pattern that is a literal phrase compiled with
\* re.IGNORECASE: the phrase occurs in the name, letter case ignored.
PatternSearch(pattern, name) ==
    \E p \in 1..Len(name) : StartsWithAt(lower(name), p, lower(pattern))

\* The payload holds lists of names; the rules hold their normalized keys.
_load_non_company_rules(payload) ==
    [exact_name_keys |->
        {_normalize_name_key(Text[n]) : n \in {m \in payload.exact_names : strip(Text[m]) # <<>>}},
     allow_name_keys |->
        {_normalize_name_key(Text[n]) : n \in {m \in payload.allow_names : strip(Text[m]) # <<>>}},
     name_patterns |->
        {strip(Text[p]) : p \in {q \in payload.name_patterns : strip(Text[q]) # <<>>}}]

_matches_non_company_rules(name, rules) ==
    LET name_key == _normalize_name_key(name)
    IN IF name_key \in rules.allow_name_keys THEN FALSE
       ELSE IF name_key \in rules.exact_name_keys THEN TRUE
       ELSE \E pattern \in rules.name_patterns : PatternSearch(pattern, name)

(***************************************************************************)
(* Market identity extractor.  None is Python's None; ParsedUrl tabulates  *)
(* urlparse(url.strip()) for the URLs of the corpus.                       *)
(***************************************************************************)
\* None as the value of a url.
None ==
    "None"

\* None as the value of a market key (a market key is never the empty string).
NoMarketKey ==
    <<>>

MARKET_EXCHANGES ==
    {<<"N", "S", "E">>, <<"B", "S", "E">>}

MARKET_HOSTS ==
    {<<"z", "e", "r", "o", "d", "h", "a", ".", "c", "o", "m">>,
     <<"t", "h", "e", "c", "h", "a", "t", "t", "e", "r", ".",
       "z", "e", "r", "o", "d", "h", "a", ".", "c", "o", "m">>}

\* path.split("/") without the empty parts
RECURSIVE SplitFrom(_, _, _, _)
SplitFrom(s, sep, i, cur) ==
    IF i > Len(s)
    THEN (IF cur = <<>> THEN <<>> ELSE <<cur>>)
    ELSE IF s[i] = sep
         THEN (IF cur = <<>> THEN <<>> ELSE <<cur>>) \o SplitFrom(s, sep, i + 1, <<>>)
         ELSE SplitFrom(s, sep, i + 1, Append(cur, s[i]))

SymbolChars ==
    UpperLetters \cup Digits \cup {".", "_", "&", "-"}

_market_key_from_url(url) ==
    IF url = None \/ url = "" THEN NoMarketKey
    ELSE LET parsed == ParsedUrl[url]
             lowered == lower(parsed.netloc)
             www == <<"w", "w", "w", ".">>
             host == IF StartsWithAt(lowered, 1, www)
                     THEN SubSeq(lowered, 5, Len(lowered)) ELSE lowered
             parts == SplitFrom(parsed.path, "/", 1, <<>>)
         IN IF host \notin MARKET_HOSTS THEN NoMarketKey
            ELSE IF Len(parts) # 4 THEN NoMarketKey
            ELSE IF \/ lower(parts[1]) # <<"m", "a", "r", "k", "e", "t", "s">>
                    \/ lower(parts[2]) # <<"s", "t", "o", "c", "k", "s">> THEN NoMarketKey
            ELSE LET exchange == upper(parts[3])
                     symbol == upper(parts[4])
                 IN IF exchange \notin MARKET_EXCHANGES THEN NoMarketKey
                    ELSE IF ~(symbol # <<>> /\ \A i \in 1..Len(symbol) : symbol[i] \in SymbolChars)
                         THEN NoMarketKey
                    ELSE exchange \o <<":">> \o symbol


(***************************************************************************)
(* Names in the data are strings; Text gives their characters.  The tables *)
(* below hold the value of each pure function on every name of Text.       *)
(***************************************************************************)
NameStrings ==
    DOMAIN Text

rule_key_of ==
    [n \in NameStrings |-> _rule_key(Text[n])]

company_name_key_of ==
    [n \in NameStrings |-> _company_name_key(Text[n])]

has_legal_suffix_of ==
    [n \in NameStrings |-> _has_legal_suffix(Text[n])]

token_count_of ==
    [n \in NameStrings |-> Len(_name_tokens(Text[n]))]

looks_like_topic_or_sentence_of ==
    [n \in NameStrings |-> _looks_like_topic_or_sentence(strip(Text[n]))]

lexically_compatible_of ==
    [p \in NameStrings \X NameStrings |-> NamesLexicallyCompatible(Text[p[1]], Text[p[2]])]

market_key_of_url ==
    [u \in DOMAIN ParsedUrl \cup {None, ""} |-> _market_key_from_url(u)]

\* Faulty variant of the oracle: the alias rules are consulted before the
\* block rules.
AliasRulesBeforeBlockRules(left_name, right_name, alias_pairs, block_pairs) ==
    LET left_key == rule_key_of[left_name]
        right_key == rule_key_of[right_name]
        pair_key == {left_key, right_key}
    IN IF left_key = <<>> \/ right_key = <<>> THEN FALSE
       ELSE IF alias_pairs # {} /\ pair_key \in alias_pairs THEN TRUE
       ELSE IF block_pairs # {} /\ pair_key \in block_pairs THEN FALSE
       ELSE lexically_compatible_of[<<left_name, right_name>>]

\* Lines 326-379: block rules, then alias rules, then the lexical rules.
_are_company_names_compatible(left_name, right_name, alias_pairs, block_pairs) ==
    LET left_key == rule_key_of[left_name]
        right_key == rule_key_of[right_name]
        pair_key == {left_key, right_key}
    IN IF left_key = <<>> \/ right_key = <<>> THEN FALSE
       ELSE IF block_pairs # {} /\ pair_key \in block_pairs THEN FALSE
       ELSE IF alias_pairs # {} /\ pair_key \in alias_pairs THEN TRUE
       ELSE lexically_compatible_of[<<left_name, right_name>>]

\* The payload is the list of two-name items of the rule file.
_load_rule_pairs(payload) ==
    {{rule_key_of[item[1]], rule_key_of[item[2]]} :
        item \in {it \in payload :
                    /\ rule_key_of[it[1]] # <<>>
                    /\ rule_key_of[it[2]] # <<>>
                    /\ rule_key_of[it[1]] # rule_key_of[it[2]]}}

HARD_CODED_BLOCK_PAIR ==
    {rule_key_of["Reliance Consumer Products"], rule_key_of["Reliance Industries"]}

(***************************************************************************)
(* Python containers.  A dict is a sequence of entries [k, v] in insertion *)
(* order; max and min return the first extreme element; sorted is stable.  *)
(***************************************************************************)
RECURSIVE Flatten(_)
Flatten(ss) ==
    IF ss = <<>> THEN <<>> ELSE Head(ss) \o Flatten(Tail(ss))

DictHas(d, k) ==
    \E i \in 1..Len(d) : d[i].k = k

DictGet(d, k) ==
    (CHOOSE e \in SeqToSet(d) : e.k = k).v

\* d.setdefault(k, []).append(x)
DictAppend(d, k, x) ==
    IF DictHas(d, k)
    THEN [i \in 1..Len(d) |-> IF d[i].k = k THEN [k |-> k, v |-> Append(d[i].v, x)] ELSE d[i]]
    ELSE Append(d, [k |-> k, v |-> <<x>>])

\* Groups the ids of the list under keyOf[id], in order.
RECURSIVE GroupBy(_, _, _)
GroupBy(ids, keyOf, d) ==
    IF ids = <<>> THEN d
    ELSE GroupBy(Tail(ids), keyOf, DictAppend(d, keyOf[Head(ids)], Head(ids)))

\* The pairs (ids[i], ids[j]), i < j, in the order of the nested loops.
OrderedPairs(ids) ==
    Flatten([i \in 1..Len(ids) |-> [j \in 1..(Len(ids) - i) |-> <<ids[i], ids[i + j]>>]])

\* Python's < on tuples of integers of equal length.
RECURSIVE IntsLess(_, _)
IntsLess(a, b) ==
    IF a = <<>> THEN FALSE
    ELSE IF Head(a) # Head(b) THEN Head(a) < Head(b)
    ELSE IntsLess(Tail(a), Tail(b))

\* Python's < on tuples (n..., s) of integers followed by one str.
KeyLess(k1, k2) ==
    \/ IntsLess(k1.n, k2.n)
    \/ k1.n = k2.n /\ StrLess(k1.s, k2.s)

\* max(seq, key=...): the first element with the largest key.
FirstMax(seq, keyOf) ==
    seq[CHOOSE i \in 1..Len(seq) :
            /\ \A j \in 1..Len(seq) : ~KeyLess(keyOf[seq[i]], keyOf[seq[j]])
            /\ \A j \in 1..(i - 1) : KeyLess(keyOf[seq[j]], keyOf[seq[i]])]

\* min(seq, key=...): the first element with the smallest key.
FirstMin(seq, keyOf) ==
    seq[CHOOSE i \in 1..Len(seq) :
            /\ \A j \in 1..Len(seq) : ~KeyLess(keyOf[seq[j]], keyOf[seq[i]])
            /\ \A j \in 1..(i - 1) : KeyLess(keyOf[seq[i]], keyOf[seq[j]])]

\* sorted(seq, key=..., reverse=True): descending keys, equal keys keep
\* their order in seq.
RECURSIVE SortedReverse(_, _)
SortedReverse(seq, keyOf) ==
    IF seq = <<>> THEN <<>>
    ELSE LET rest == SortedReverse(SubSeq(seq, 1, Len(seq) - 1), keyOf)
             x == seq[Len(seq)]
             smaller == {i \in 1..Len(rest) : KeyLess(keyOf[rest[i]], keyOf[x])}
             pos == IF smaller = {} THEN Len(rest) + 1
                    ELSE CHOOSE i \in smaller : \A j \in smaller : i <= j
         IN SubSeq(rest, 1, pos - 1) \o <<x>> \o SubSeq(rest, pos, Len(rest))

\* sorted(ids) for company ids and sorted(keys) for strings given by chars.
RECURSIVE SortedBy(_, _)
SortedBy(seq, textOf) ==
    IF seq = <<>> THEN <<>>
    ELSE LET rest == SortedBy(SubSeq(seq, 1, Len(seq) - 1), textOf)
             x == seq[Len(seq)]
             larger == {i \in 1..Len(rest) : StrLess(textOf[x], textOf[rest[i]])}
             pos == IF larger = {} THEN Len(rest) + 1
                    ELSE CHOOSE i \in larger : \A j \in larger : i <= j
         IN SubSeq(rest, 1, pos - 1) \o <<x>> \o SubSeq(rest, pos, Len(rest))

\* The sequences that list every element of the set once: the orders in
\* which a Python set can be iterated.
IterationOrders(S) ==
    {s \in [1..Cardinality(S) -> S] : \A i, j \in 1..Cardinality(S) : s[i] = s[j] => i = j}

\* Number of rows of the list that carry the company id.
RECURSIVE CountRows(_, _)
CountRows(rows, company_id) ==
    IF rows = <<>> THEN 0
    ELSE (IF Head(rows).company_id = company_id THEN 1 ELSE 0) + CountRows(Tail(rows), company_id)

RECURSIVE SumOver(_, _)
SumOver(ids, countOf) ==
    IF ids = <<>> THEN 0 ELSE countOf[Head(ids)] + SumOver(Tail(ids), countOf)

(***************************************************************************)
(* Union-find over raw company ids.                                        *)
(***************************************************************************)
RECURSIVE find(_, _)
find(parent, company_id) ==
    IF parent[company_id] = company_id THEN company_id
    ELSE find(parent, parent[company_id])

\* The ids on the path from company_id up to, not including, its root.
RECURSIVE PathToRoot(_, _)
PathToRoot(parent, company_id) ==
    IF parent[company_id] = company_id THEN {}
    ELSE {company_id} \cup PathToRoot(parent, parent[company_id])

\* The parent table after find(company_id): the path points at the root.
find_compress(parent, company_id) ==
    LET root == find(parent, company_id)
        path == PathToRoot(parent, company_id)
    IN [x \in DOMAIN parent |-> IF x \in path THEN root ELSE parent[x]]

RECURSIVE find_compress_all(_, _)
find_compress_all(parent, ids) ==
    IF ids = <<>> THEN parent
    ELSE find_compress_all(find_compress(parent, Head(ids)), Tail(ids))

union(parent, left_id, right_id) ==
    LET p1 == find_compress(parent, left_id)
        p2 == find_compress(p1, right_id)
        left_root == find(parent, left_id)
        right_root == find(p1, right_id)
    IN IF left_root = right_root THEN p2
       ELSE [p2 EXCEPT ![right_root] = left_root]

\* union applied to each pair of the list in turn.
RECURSIVE union_all(_, _)
union_all(parent, pairs) ==
    IF pairs = <<>> THEN parent
    ELSE union_all(union(parent, Head(pairs)[1], Head(pairs)[2]), Tail(pairs))

_component_score(company_ids, quote_count_by_company, mention_count_by_company) ==
    LET quote_score == SumOver(company_ids, quote_count_by_company)
        mention_score == SumOver(company_ids, mention_count_by_company)
    IN [n |-> <<quote_score * 10 + mention_score * 3, Len(company_ids)>>, s |-> <<>>]

(***************************************************************************)
(* merge_company_variants.  A run record r holds the arguments and the     *)
(* locals of one call; each operator below is one phase of the function    *)
(* and returns the record after the phase.                                 *)
(***************************************************************************)
IdsOf(companies) ==
    [i \in 1..Len(companies) |-> companies[i].id]

\* bool(market_key_by_company_id.get(company_id)) as 0 or 1
HasKey(r, company_id) ==
    IF r.market_key_by_company_id[company_id] # NoMarketKey THEN 1 ELSE 0

\* Faulty variant of the pre-pass: the sentence heuristic is not consulted.
PrepareWithoutSentenceHeuristic(r) ==
    LET ids == SeqToSet(IdsOf(r.companies))
        by_id == [id \in ids |-> CHOOSE c \in SeqToSet(r.companies) : c.id = id]
        rules == _load_non_company_rules(r.non_company_payload)
        company_name(c) == strip(Text[c.name])
        labelled == {c \in SeqToSet(r.companies) :
                        /\ company_name(c) # <<>>
                        /\ _matches_non_company_rules(company_name(c), rules)}
    IN [r EXCEPT
          !.alias_pairs = _load_rule_pairs(r.alias_payload),
          !.block_pairs = _load_rule_pairs(r.block_payload) \cup {HARD_CODED_BLOCK_PAIR},
          !.non_company_rules = rules,
          !.quote_count_by_company = [id \in ids |-> CountRows(r.quotes, id)],
          !.mention_count_by_company = [id \in ids |-> CountRows(r.mentions, id)],
          !.companies_by_id = by_id,
          !.market_key_by_company_id = [id \in ids |-> market_key_of_url[by_id[id].url]],
          !.parent = [id \in ids |-> id],
          !.quarantined_company_reason = [id \in {c.id : c \in labelled} |-> "non_company_label"]]

\* Lines 473-503: rule sets, row counts, the id tables and the quarantine
\* pre-pass.
Prepare(r) ==
    LET ids == SeqToSet(IdsOf(r.companies))
        by_id == [id \in ids |-> CHOOSE c \in SeqToSet(r.companies) : c.id = id]
        rules == _load_non_company_rules(r.non_company_payload)
        company_name(c) == strip(Text[c.name])
        labelled == {c \in SeqToSet(r.companies) :
                        /\ company_name(c) # <<>>
                        /\ \/ _matches_non_company_rules(company_name(c), rules)
                           \/ looks_like_topic_or_sentence_of[c.name]}
    IN [r EXCEPT
          !.alias_pairs = _load_rule_pairs(r.alias_payload),
          !.block_pairs = _load_rule_pairs(r.block_payload) \cup {HARD_CODED_BLOCK_PAIR},
          !.non_company_rules = rules,
          !.quote_count_by_company = [id \in ids |-> CountRows(r.quotes, id)],
          !.mention_count_by_company = [id \in ids |-> CountRows(r.mentions, id)],
          !.companies_by_id = by_id,
          !.market_key_by_company_id = [id \in ids |-> market_key_of_url[by_id[id].url]],
          !.parent = [id \in ids |-> id],
          !.quarantined_company_reason = [id \in {c.id : c \in labelled} |-> "non_company_label"]]

\* Lines 527-539: the alias pairs, taken in the iteration order of the set.
AliasUnionPairs(r, order) ==
    LET ids == IdsOf(r.companies)
        company_ids_by_rule_key ==
            GroupBy(ids, [id \in SeqToSet(ids) |-> rule_key_of[r.companies_by_id[id].name]], <<>>)
        get(key) == IF DictHas(company_ids_by_rule_key, key)
                    THEN DictGet(company_ids_by_rule_key, key) ELSE <<>>
        of_pair(pair) ==
            LET left_key == CHOOSE k \in pair : \A o \in pair : ~StrLess(o, k)
                right_key == CHOOSE k \in pair : k # left_key
                lefts == get(left_key)
                rights == get(right_key)
                all == Flatten([i \in 1..Len(lefts) |->
                                  [j \in 1..Len(rights) |-> <<lefts[i], rights[j]>>]])
            IN IF Cardinality(pair) # 2 THEN <<>>
               ELSE SelectSeq(all, LAMBDA p : p[1] # p[2])
    IN Flatten([i \in 1..Len(order) |-> of_pair(order[i])])

AliasPass(r, order) ==
    [r EXCEPT !.parent = union_all(r.parent, AliasUnionPairs(r, order))]

\* Lines 548-560: companies grouped by market key; compatible pairs united.
MarketGroups(r) ==
    LET ids == IdsOf(r.companies)
        keyed == SelectSeq(ids, LAMBDA id : r.market_key_by_company_id[id] # NoMarketKey)
    IN GroupBy(keyed, r.market_key_by_company_id, <<>>)

MarketUnion(r) ==
    LET market_groups == MarketGroups(r)
        compatible(p) ==
            _are_company_names_compatible(r.companies_by_id[p[1]].name,
                                          r.companies_by_id[p[2]].name,
                                          r.alias_pairs, r.block_pairs)
        pairs == Flatten([g \in 1..Len(market_groups) |->
                            SelectSeq(OrderedPairs(market_groups[g].v), compatible)])
    IN [r EXCEPT !.market_groups = market_groups,
                 !.parent = union_all(r.parent, pairs)]

\* Lines 571-599: one component of a market key group that holds several.
ConflictComponent(r, primary_root, entry) ==
    LET root == entry.k
        component_ids == entry.v
        component_quote_count == SumOver(component_ids, r.quote_count_by_company)
        component_mention_count == SumOver(component_ids, r.mention_count_by_company)
        members == SortedBy(component_ids, IdText)
        recorded ==
            [root |-> root,
             is_primary |-> root = primary_root,
             quote_count |-> component_quote_count,
             mention_count |-> component_mention_count,
             members |-> [i \in 1..Len(members) |->
                            [id |-> members[i], name |-> r.companies_by_id[members[i]].name]]]
        idset == SeqToSet(component_ids)
    IN IF root = primary_root
       THEN [run |-> r, component |-> recorded]
       ELSE IF component_quote_count = 0
       THEN [run |-> [r EXCEPT !.quarantined_company_reason =
                         [id \in (DOMAIN r.quarantined_company_reason) \cup idset |->
                            IF id \in idset THEN "market_key_conflict_mentions_only"
                            ELSE r.quarantined_company_reason[id]]],
             component |-> recorded]
       ELSE [run |-> [r EXCEPT
                        !.companies_by_id =
                            [id \in DOMAIN r.companies_by_id |->
                               IF id \in idset THEN [r.companies_by_id[id] EXCEPT !.url = None]
                               ELSE r.companies_by_id[id]],
                        !.market_key_by_company_id =
                            [id \in DOMAIN r.market_key_by_company_id |->
                               IF id \in idset THEN NoMarketKey
                               ELSE r.market_key_by_company_id[id]]],
             component |-> recorded]

RECURSIVE ConflictComponents(_, _, _, _)
ConflictComponents(r, primary_root, entries, recorded) ==
    IF entries = <<>> THEN [run |-> r, components |-> recorded]
    ELSE LET step == ConflictComponent(r, primary_root, Head(entries))
         IN ConflictComponents(step.run, primary_root, Tail(entries),
                               Append(recorded, step.component))

\* Lines 562-606: one market key group.
MarketGroup(r, group) ==
    LET group_ids == group.v
        compressed == find_compress_all(r.parent, group_ids)
        r1 == [r EXCEPT !.parent = compressed]
        component_map ==
            GroupBy(group_ids, [id \in SeqToSet(group_ids) |-> find(r.parent, id)], <<>>)
        roots == [i \in 1..Len(component_map) |-> component_map[i].k]
        score == [root \in SeqToSet(roots) |->
                    _component_score(DictGet(component_map, root),
                                     r.quote_count_by_company, r.mention_count_by_company)]
        primary_root == FirstMax(roots, score)
        done == ConflictComponents(r1, primary_root, component_map, <<>>)
    IN IF Len(component_map) <= 1 THEN r1
       ELSE [done.run EXCEPT !.market_conflicts =
                Append(done.run.market_conflicts,
                       [market_key |-> group.k, components |-> done.components])]

RECURSIVE MarketGroupsFrom(_, _)
MarketGroupsFrom(r, groups) ==
    IF groups = <<>> THEN r
    ELSE MarketGroupsFrom(MarketGroup(r, Head(groups)), Tail(groups))

MarketConflicts(r) ==
    MarketGroupsFrom(r, r.market_groups)

\* Lines 610-632: buckets of equal name key.
NameBuckets(r) ==
    LET ids == SelectSeq(IdsOf(r.companies),
                         LAMBDA id : id \notin DOMAIN r.quarantined_company_reason)
        name_key == [id \in SeqToSet(ids) |->
                        IF company_name_key_of[r.companies_by_id[id].name] # <<>>
                        THEN company_name_key_of[r.companies_by_id[id].name]
                        ELSE IdText[id]]
        name_groups == GroupBy(ids, name_key, <<>>)
        merges(p) ==
            LET left_id == p[1]
                right_id == p[2]
                left_market == r.market_key_by_company_id[left_id]
                right_market == r.market_key_by_company_id[right_id]
                left_name == r.companies_by_id[left_id].name
                right_name == r.companies_by_id[right_id].name
                pair_key == {rule_key_of[left_name], rule_key_of[right_name]}
            IN IF \/ left_id \in DOMAIN r.quarantined_company_reason
                  \/ right_id \in DOMAIN r.quarantined_company_reason THEN FALSE
               ELSE IF pair_key \in r.block_pairs THEN FALSE
               ELSE IF /\ left_market # NoMarketKey
                       /\ right_market # NoMarketKey
                       /\ left_market # right_market
                       /\ pair_key \notin r.alias_pairs THEN FALSE
               ELSE _are_company_names_compatible(left_name, right_name,
                                                  r.alias_pairs, r.block_pairs)
        pairs == Flatten([g \in 1..Len(name_groups) |->
                            SelectSeq(OrderedPairs(name_groups[g].v), merges)])
    IN [r EXCEPT !.parent = union_all(r.parent, pairs)]

\* Lines 637-644
_current_components(r) ==
    LET ids == SelectSeq(IdsOf(r.companies),
                         LAMBDA id : id \notin DOMAIN r.quarantined_company_reason)
    IN [components |-> GroupBy(ids, [id \in SeqToSet(ids) |-> find(r.parent, id)], <<>>),
        parent |-> find_compress_all(r.parent, ids)]

\* The key of the anchor choice (lines 658-663) and of the refinement order
\* (lines 717-722).
MemberKey(r, company_id) ==
    [n |-> <<r.quote_count_by_company[company_id],
             r.mention_count_by_company[company_id],
             HasKey(r, company_id)>>,
     s |-> lower(Text[r.companies_by_id[company_id].name])]

\* sorted(keys) of a set of market keys
RECURSIVE SortedKeys(_)
SortedKeys(S) ==
    IF S = {} THEN <<>>
    ELSE LET least == CHOOSE k \in S : \A o \in S : ~StrLess(o, k)
         IN <<least>> \o SortedKeys(S \ {least})

\* Lines 671-699: one pair of components of the cross-bucket pass.
CrossBucketPair(r, cmk, anchor, left_root, right_root) ==
    LET left_anchor_id == anchor[left_root]
        right_anchor_id == anchor[right_root]
        left_anchor_name == r.companies_by_id[left_anchor_id].name
        right_anchor_name == r.companies_by_id[right_anchor_id].name
        left_market_keys == cmk[left_root]
        right_market_keys == cmk[right_root]
        pair_key == {rule_key_of[left_anchor_name], rule_key_of[right_anchor_name]}
        found == [r EXCEPT !.parent =
                    find_compress(find_compress(r.parent, left_anchor_id), right_anchor_id)]
    IN IF find(r.parent, left_anchor_id) = find(r.parent, right_anchor_id) THEN found
       ELSE IF pair_key \in r.block_pairs THEN found
       ELSE IF /\ left_market_keys # {}
               /\ right_market_keys # {}
               /\ left_market_keys # right_market_keys THEN found
       ELSE IF ~_are_company_names_compatible(left_anchor_name, right_anchor_name,
                                              r.alias_pairs, r.block_pairs) THEN found
       ELSE [r EXCEPT
               !.parent = union(r.parent, left_anchor_id, right_anchor_id),
               !.cross_bucket_merges =
                   Append(r.cross_bucket_merges,
                          [left_root |-> left_root,
                           right_root |-> right_root,
                           left_anchor |-> [id |-> left_anchor_id, name |-> left_anchor_name],
                           right_anchor |-> [id |-> right_anchor_id, name |-> right_anchor_name],
                           left_market_keys |-> SortedKeys(left_market_keys),
                           right_market_keys |-> SortedKeys(right_market_keys)])]

RECURSIVE CrossBucketPairs(_, _, _, _)
CrossBucketPairs(r, cmk, anchor, pairs) ==
    IF pairs = <<>> THEN r
    ELSE CrossBucketPairs(CrossBucketPair(r, cmk, anchor, Head(pairs)[1], Head(pairs)[2]),
                          cmk, anchor, Tail(pairs))

\* Lines 646-699: the cross-bucket anchor pass.
CrossBucket(r) ==
    LET current == _current_components(r)
        components == current.components
        component_roots == [i \in 1..Len(components) |-> components[i].k]
        rootset == SeqToSet(component_roots)
        component_market_keys ==
            [root \in rootset |->
                {r.market_key_by_company_id[id] : id \in SeqToSet(DictGet(components, root))}
                    \ {NoMarketKey}]
        key == [id \in DOMAIN r.parent |-> MemberKey(r, id)]
        component_anchor_id ==
            [root \in rootset |-> FirstMax(DictGet(components, root), key)]
    IN CrossBucketPairs([r EXCEPT !.parent = current.parent],
                        component_market_keys, component_anchor_id,
                        OrderedPairs(component_roots))

\* d[k] = v
DictSet(d, k, v) ==
    IF DictHas(d, k)
    THEN [i \in 1..Len(d) |-> IF d[i].k = k THEN [k |-> k, v |-> v] ELSE d[i]]
    ELSE Append(d, [k |-> k, v |-> v])

\* Lines 729-743: the member joins the first cluster all of whose members
\* are compatible with it, or starts a new cluster.
PlaceInCluster(r, clusters, company_id) ==
    LET company_name == r.companies_by_id[company_id].name
        fits(cluster) ==
            \A i \in 1..Len(cluster) :
                _are_company_names_compatible(company_name,
                                              r.companies_by_id[cluster[i]].name,
                                              r.alias_pairs, r.block_pairs)
        fitting == {c \in 1..Len(clusters) : fits(clusters[c])}
    IN IF fitting = {} THEN Append(clusters, <<company_id>>)
       ELSE LET first == CHOOSE c \in fitting : \A o \in fitting : c <= o
            IN [clusters EXCEPT ![first] = Append(@, company_id)]

RECURSIVE Clusters(_, _, _)
Clusters(r, sorted_component_ids, clusters) ==
    IF sorted_component_ids = <<>> THEN clusters
    ELSE Clusters(r, Tail(sorted_component_ids),
                  PlaceInCluster(r, clusters, Head(sorted_component_ids)))

\* Faulty variant of the split: every cluster is stored under the key root.
RECURSIVE SplitClustersUnderRoot(_, _, _, _)
SplitClustersUnderRoot(refined, root, clusters, cluster_index) ==
    IF cluster_index > Len(clusters) THEN refined
    ELSE SplitClustersUnderRoot(DictSet(refined, <<root>>, clusters[cluster_index]),
                                root, clusters, cluster_index + 1)

\* Lines 749-751: the clusters of a split component, under the keys
\* <<root, i>> that stand for "root#i".
RECURSIVE SplitClusters(_, _, _, _)
SplitClusters(refined, root, clusters, cluster_index) ==
    IF cluster_index > Len(clusters) THEN refined
    ELSE SplitClusters(DictSet(refined, <<root, cluster_index - 1>>, clusters[cluster_index]),
                       root, clusters, cluster_index + 1)

\* Lines 710-751: one component of the refinement.  The key of an entry is
\* <<root>> for the key root and <<root, i>> for the key "root#i".
RefineComponent(r, refined, entry) ==
    LET root == entry.k
        component_ids == entry.v
        key == [id \in SeqToSet(component_ids) |-> MemberKey(r, id)]
        sorted_component_ids == SortedReverse(component_ids, key)
        clusters == Clusters(r, sorted_component_ids, <<>>)
    IN IF Len(component_ids) <= 1 THEN DictSet(refined, <<root>>, component_ids)
       ELSE IF Len(clusters) = 1 THEN DictSet(refined, <<root>>, clusters[1])
       ELSE SplitClusters(refined, root, clusters, 1)

RECURSIVE RefineComponents(_, _, _)
RefineComponents(r, refined, entries) ==
    IF entries = <<>> THEN refined
    ELSE RefineComponents(r, RefineComponent(r, refined, Head(entries)), Tail(entries))

\* Faulty variant of the refinement: quarantined ids are grouped too.
RefineWithQuarantinedIds(r) ==
    LET ids == IdsOf(r.companies)
        grouped_company_ids ==
            GroupBy(ids, [id \in SeqToSet(ids) |-> find(r.parent, id)], <<>>)
    IN [r EXCEPT !.parent = find_compress_all(r.parent, ids),
                 !.grouped_company_ids = RefineComponents(r, <<>>, grouped_company_ids)]

\* Lines 701-753: components of the surviving ids, refined into clusters.
Refine(r) ==
    LET ids == SelectSeq(IdsOf(r.companies),
                         LAMBDA id : id \notin DOMAIN r.quarantined_company_reason)
        grouped_company_ids ==
            GroupBy(ids, [id \in SeqToSet(ids) |-> find(r.parent, id)], <<>>)
    IN [r EXCEPT !.parent = find_compress_all(r.parent, ids),
                 !.grouped_company_ids = RefineComponents(r, <<>>, grouped_company_ids)]

\* Faulty variant of the canonical URL: the first URL, with or without a
\* market key.
FirstUrl(variants) ==
    LET with_url == SelectSeq(variants, LAMBDA c : c.url # None /\ c.url # "")
    IN IF with_url = <<>> THEN None ELSE with_url[1].url

\* Lines 448-455: the first URL that carries a market key.
_select_canonical_url(variants) ==
    LET with_url == SelectSeq(variants, LAMBDA c : c.url # None /\ c.url # "")
        urls == [i \in 1..Len(with_url) |-> with_url[i].url]
        market == {i \in 1..Len(urls) : market_key_of_url[urls[i]] # NoMarketKey}
    IN IF urls = <<>> THEN None
       ELSE IF market = {} THEN None
       ELSE urls[CHOOSE i \in market : \A o \in market : i <= o]

_select_display_name(variants) ==
    LET rank == [c \in SeqToSet(variants) |->
                    [n |-> <<IF has_legal_suffix_of[c.name] THEN 1 ELSE 0,
                             token_count_of[c.name],
                             Len(Text[c.name])>>,
                     s |-> lower(Text[c.name])]]
    IN FirstMin(variants, rank).name

\* Faulty variant of the choice of primary: the best of all raw companies,
\* not of the members of the component.
PrimaryOfAllCompanies(r, variants) ==
    LET key == [c \in SeqToSet(r.companies) |->
                    [n |-> <<HasKey(r, c.id),
                             IF c.url # None /\ c.url # "" THEN 1 ELSE 0,
                             r.quote_count_by_company[c.id],
                             r.mention_count_by_company[c.id],
                             IF has_legal_suffix_of[c.name] THEN 0 ELSE 1,
                             0 - Len(Text[c.name])>>,
                     s |-> <<>>]]
    IN FirstMax(r.companies, key)

\* Lines 766-777: the member that gives the canonical id.
PrimaryOf(r, variants) ==
    LET key == [c \in SeqToSet(variants) |->
                    [n |-> <<HasKey(r, c.id),
                             IF c.url # None /\ c.url # "" THEN 1 ELSE 0,
                             r.quote_count_by_company[c.id],
                             r.mention_count_by_company[c.id],
                             IF has_legal_suffix_of[c.name] THEN 0 ELSE 1,
                             0 - Len(Text[c.name])>>,
                     s |-> <<>>]]
    IN FirstMax(variants, key)

\* Lines 759-818: one final component.
CanonicalizeComponent(r, component_ids) ==
    LET variants == [i \in 1..Len(component_ids) |-> r.companies_by_id[component_ids[i]]]
        component_market_keys ==
            {r.market_key_by_company_id[id] : id \in SeqToSet(component_ids)} \ {NoMarketKey}
        primary_id == PrimaryOf(r, variants).id
        display_name == _select_display_name(variants)
        canonical_url == _select_canonical_url(variants)
        several == Len(component_ids) > 1
        identity_source ==
            IF several /\ component_market_keys # {} THEN "market_key+name"
            ELSE IF several THEN "name"
            ELSE IF canonical_url # None THEN "market_key"
            ELSE "single"
        identity_confidence ==
            IF several /\ component_market_keys # {}
            THEN (IF Cardinality(component_market_keys) = 1 THEN "high" ELSE "medium")
            ELSE IF several THEN "medium"
            ELSE IF canonical_url # None THEN "high"
            ELSE "medium"
        members == SortedBy(component_ids, IdText)
        ids == SeqToSet(component_ids)
    IN [r EXCEPT
          !.merged_companies =
              Append(@, [id |-> primary_id,
                         name |-> display_name,
                         url |-> canonical_url,
                         market_key |-> market_key_of_url[canonical_url],
                         canonical_company_id |-> primary_id,
                         identity_confidence |-> identity_confidence,
                         identity_source |-> identity_source]),
          !.alias_map =
              [id \in (DOMAIN r.alias_map) \cup ids |->
                  IF id \in ids THEN primary_id ELSE r.alias_map[id]],
          !.merged_groups =
              IF several
              THEN Append(@, [canonical_id |-> primary_id,
                              canonical_name |-> display_name,
                              members |-> [i \in 1..Len(members) |->
                                              [id |-> members[i],
                                               name |-> r.companies_by_id[members[i]].name]],
                              market_keys |-> SortedKeys(component_market_keys)])
              ELSE @]

RECURSIVE CanonicalizeFrom(_, _)
CanonicalizeFrom(r, entries) ==
    IF entries = <<>> THEN r
    ELSE CanonicalizeFrom(CanonicalizeComponent(r, Head(entries).v), Tail(entries))

Canonicalize(r) ==
    CanonicalizeFrom(r, r.grouped_company_ids)

\* Faulty variant of the row rewriter: the kept rows keep their raw
\* company_id.
RowsWithRawCompanyId(r, rows) ==
    SelectSeq(rows, LAMBDA q : q.company_id \notin DOMAIN r.quarantined_company_reason)

\* Faulty variant of the row rewriter: the rows of quarantined companies are
\* kept as they are.
RowsOfQuarantinedKept(r, rows) ==
    [i \in 1..Len(rows) |->
        [rows[i] EXCEPT !.company_id =
            IF rows[i].company_id \in DOMAIN r.alias_map
            THEN r.alias_map[rows[i].company_id] ELSE rows[i].company_id]]

\* Lines 820-838: the rows of one list, rewritten or dropped.
RewrittenRows(r, rows) ==
    LET kept == SelectSeq(rows, LAMBDA q : q.company_id \notin DOMAIN r.quarantined_company_reason)
    IN [i \in 1..Len(kept) |->
           [kept[i] EXCEPT !.company_id =
               IF kept[i].company_id \in DOMAIN r.alias_map
               THEN r.alias_map[kept[i].company_id] ELSE kept[i].company_id]]

DroppedRows(r, rows) ==
    Len(SelectSeq(rows, LAMBDA q : q.company_id \in DOMAIN r.quarantined_company_reason))

RewriteRows(r) ==
    [r EXCEPT !.merged_quotes = RewrittenRows(r, r.quotes),
              !.dropped_quote_rows = DroppedRows(r, r.quotes),
              !.merged_mentions = RewrittenRows(r, r.mentions),
              !.dropped_mention_rows = DroppedRows(r, r.mentions)]

\* The ids of a set as a list, in ascending order of id.
RECURSIVE SortedIds(_)
SortedIds(S) ==
    IF S = {} THEN <<>>
    ELSE LET least == CHOOSE k \in S : \A o \in S : ~StrLess(IdText[o], IdText[k])
         IN <<least>> \o SortedIds(S \ {least})

\* Lines 840-870: the counts and the quarantine table of the report.
Report(r) ==
    LET quarantined == SortedIds(DOMAIN r.quarantined_company_reason)
    IN [r EXCEPT !.resolution_report =
          [counts |->
              [input_companies |-> Len(r.companies),
               canonical_companies |-> Len(r.merged_companies),
               quarantined_companies |-> Cardinality(DOMAIN r.quarantined_company_reason),
               merged_groups |-> Len(r.merged_groups),
               dropped_quote_rows |-> r.dropped_quote_rows,
               dropped_mention_rows |-> r.dropped_mention_rows,
               input_quotes |-> Len(r.quotes),
               output_quotes |-> Len(r.merged_quotes),
               input_mentions |-> Len(r.mentions),
               output_mentions |-> Len(r.merged_mentions),
               market_conflicts |-> Len(r.market_conflicts),
               cross_bucket_merges |-> Len(r.cross_bucket_merges)],
           quarantined_companies |->
              [i \in 1..Len(quarantined) |->
                  [id |-> quarantined[i],
                   name |-> r.companies_by_id[quarantined[i]].name,
                   reason |-> r.quarantined_company_reason[quarantined[i]],
                   market_key |-> r.market_key_by_company_id[quarantined[i]],
                   quote_count |-> r.quote_count_by_company[quarantined[i]],
                   mention_count |-> r.mention_count_by_company[quarantined[i]]]]]]

\* The whole call: the phases in order, on the given arguments and rule
\* files, with the alias pairs taken in the given order.
MergeRun(start, order) ==
    Report(RewriteRows(Canonicalize(Refine(CrossBucket(NameBuckets(
        MarketConflicts(MarketUnion(AliasPass(Prepare(start), order)))))))))

(***************************************************************************)
(* build_dailybrief_story_mentions and the alias tables it consults.  The  *)
(* strings of the alias rule file and of the posts are keys of StoryText.  *)
(***************************************************************************)
\* str.replace(old, new) for a one-character old
RECURSIVE replace(_, _, _)
replace(s, old, new) ==
    IF s = <<>> THEN <<>>
    ELSE (IF Head(s) = old THEN new ELSE <<Head(s)>>) \o replace(Tail(s), old, new)

\* Lines 1024-1027.  The runs outside [a-z0-9] become "-" and the outer "-"
\* are stripped: the alphanumeric runs joined by "-".
slugify(value) ==
    LET runs == findall(AlnumLower, strip(lower(value)))
    IN IF runs = <<>> THEN <<"u", "n", "k", "n", "o", "w", "n">> ELSE join(<<"-">>, runs)

\* Lines 1030-1034.  The typographic apostrophe of line 1032 is outside
\* [a-z0-9] before and after its replacement, so line 1033 erases both.
_normalize_alias_phrase(text) ==
    LET normalized == SubRunsFrom(replace(lower(text), "&", <<" ", "a", "n", "d", " ">>),
                                  AlnumLower, <<" ">>, 1)
    IN join(<<" ">>, SplitFrom(normalized, " ", 1, <<>>))

\* The dict filled by d[Key(e)] = Value(e) for the entries e, in order, that
\* satisfy Keep.
ParsedDict(entries, Key(_), Value(_), Keep(_)) ==
    LET kept == SelectSeq(entries, Keep)
        last(k) == CHOOSE i \in 1..Len(kept) :
                      /\ Key(kept[i]) = k
                      /\ \A j \in 1..Len(kept) : Key(kept[j]) = k => j <= i
    IN [k \in {Key(kept[i]) : i \in 1..Len(kept)} |-> Value(kept[last(k)])]

\* The non-empty alias keys of a list of aliases.
ParsedAliases(aliases) ==
    {_normalize_alias_phrase(StoryText[aliases[i]]) : i \in 1..Len(aliases)} \ {<<>>}

\* Lines 1037-1111.
_load_dailybrief_alias_rules(payload) ==
    LET has_id(e) == strip(IdText[e.k]) # <<>>
        aliases_of(e) == ParsedAliases(e.v)
        has_aliases(e) == has_id(e) /\ aliases_of(e) # {}
        alias_key(e) == _normalize_alias_phrase(StoryText[e.k])
        company_key(e) == e.v
        has_override(e) == alias_key(e) # <<>> /\ strip(IdText[e.v]) # <<>>
        company_id(e) == e.k
    IN [company_aliases |->
            ParsedDict(payload.company_aliases, company_id, aliases_of, has_aliases),
        alias_overrides |->
            ParsedDict(payload.alias_overrides, alias_key, company_key, has_override),
        blocked_aliases |-> ParsedAliases(payload.blocked_aliases),
        strict_companies |->
            {id \in SeqToSet(payload.strict_companies) : strip(IdText[id]) # <<>>},
        company_blocked_aliases |->
            ParsedDict(payload.company_blocked_aliases, company_id, aliases_of, has_aliases)]

\* Lines 1114-1144: the names of the members of every merged group, under
\* the canonical id of the group.
_merged_member_names_by_canonical_id(groups) ==
    LET names(g) == {n \in {g.canonical_name} \cup {g.members[i].name : i \in 1..Len(g.members)} :
                        strip(Text[n]) # <<>>}
        named == SelectSeq(groups, LAMBDA g : strip(IdText[g.canonical_id]) # <<>> /\ names(g) # {})
    IN [id \in {named[i].canonical_id : i \in 1..Len(named)} |->
           UNION {names(named[i]) : i \in {j \in 1..Len(named) : named[j].canonical_id = id}}]

\* Lines 1147-1155; the empty string stands for None.
_company_symbol_from_url(url) ==
    LET market_key == market_key_of_url[url]
        colon == CHOOSE i \in 1..Len(market_key) :
                    market_key[i] = ":" /\ \A j \in 1..(i - 1) : market_key[j] # ":"
        normalized_symbol ==
            _normalize_alias_phrase(SubSeq(market_key, colon + 1, Len(market_key)))
    IN IF market_key = NoMarketKey THEN <<>>
       ELSE IF 1 < Len(normalized_symbol) /\ Len(normalized_symbol) <= 12
            THEN normalized_symbol
       ELSE <<>>

\* dict.get(key, set())
GetSet(d, key) ==
    IF key \in DOMAIN d THEN d[key] ELSE {}

\* Lines 1182-1234: the aliases of one company.
CompanyAliases(company, merged_member_names, rules) ==
    LET company_name == strip(Text[company.name])
        explicit_aliases ==
            {_normalize_alias_phrase(alias) : alias \in GetSet(rules.company_aliases, company.id)}
                \ {<<>>}
        derived ==
            {_normalize_alias_phrase(company_name),
             _normalize_alias_phrase(join(<<" ">>, _normalized_name_tokens(company_name))),
             _company_symbol_from_url(company.url)}
            \cup {_normalize_alias_phrase(Text[n]) : n \in GetSet(merged_member_names, company.id)}
            \cup {_normalize_alias_phrase(k) :
                    k \in {a \in DOMAIN rules.alias_overrides :
                              rules.alias_overrides[a] = company.id}}
        aliases == IF company.id \in rules.strict_companies THEN explicit_aliases
                   ELSE derived \cup explicit_aliases
    IN {alias \in aliases :
          /\ alias # <<>>
          /\ alias \notin rules.blocked_aliases
          /\ alias \notin GetSet(rules.company_blocked_aliases, company.id)
          /\ Len(alias) >= 2
          /\ ~(\A i \in 1..Len(alias) : alias[i] \in Digits)}

\* Lines 1158-1238; the dict in the order of its keys' first insertion.
_build_company_alias_map(companies, merged_groups, rules) ==
    LET with_id == SelectSeq(companies, LAMBDA c : strip(IdText[c.id]) # <<>>)
        merged_member_names == _merged_member_names_by_canonical_id(merged_groups)
    IN [i \in 1..Len(with_id) |->
           [k |-> with_id[i].id,
            v |-> CompanyAliases(with_id[i], merged_member_names, rules)]]

\* The companies whose alias set holds the alias (alias_to_companies).
CompaniesWithAlias(aliases_by_company, alias) ==
    {aliases_by_company[i].k : i \in {j \in 1..Len(aliases_by_company) :
                                         alias \in aliases_by_company[j].v}}

\* Faulty variant of the alias filter: an alias of several companies is
\* kept when no override names it.
KeptAliasesAlsoShared(aliases_by_company, rules, company_id, aliases) ==
    {alias \in aliases :
        /\ alias \notin rules.blocked_aliases
        /\ alias \in DOMAIN rules.alias_overrides
              => rules.alias_overrides[alias] = company_id}

\* Lines 1266-1275: the aliases of a company that become alias specs.
KeptAliases(aliases_by_company, rules, company_id, aliases) ==
    {alias \in aliases :
        /\ alias \notin rules.blocked_aliases
        /\ IF alias \in DOMAIN rules.alias_overrides
           THEN rules.alias_overrides[alias] = company_id
           ELSE Cardinality(CompaniesWithAlias(aliases_by_company, alias)) <= 1}

\* Faulty variant of the spec lists: first_token is the whole alias.
SpecListsWholeAlias(kept) ==
    {[i \in 1..Len(order) |-> [alias |-> order[i], first_token |-> order[i]]] :
        order \in {o \in IterationOrders(kept) :
                      \A i \in 1..(Len(o) - 1) : Len(o[i]) >= Len(o[i + 1])}}

\* Lines 1265-1285: the spec lists that the loop over the alias set and the
\* stable sort by descending length can give: the set is iterated in any
\* order, so aliases of equal length come in any order.
SpecLists(kept) ==
    {[i \in 1..Len(order) |->
         [alias |-> order[i], first_token |-> Head(SplitFrom(order[i], " ", 1, <<>>))]] :
        order \in {o \in IterationOrders(kept) :
                      \A i \in 1..(Len(o) - 1) : Len(o[i]) >= Len(o[i + 1])}}

\* Lines 1246-1287: the possible values of specs_by_company, a dict in the
\* order of aliases_by_company.
_build_company_alias_specs(aliases_by_company, rules) ==
    LET choices(i) == SpecLists(KeptAliases(aliases_by_company, rules,
                                           aliases_by_company[i].k, aliases_by_company[i].v))
        positions == 1..Len(aliases_by_company)
    IN {[i \in positions |-> [k |-> aliases_by_company[i].k, v |-> specs[i]]] :
           specs \in {s \in [positions -> UNION {choices(i) : i \in positions}] :
                         \A i \in positions : s[i] \in choices(i)}}

\* Lines 1241-1243: the pattern of an alias matches at position start of a
\* text whose only white space is single blanks.
PatternMatchesAt(text, alias, start) ==
    /\ start + Len(alias) - 1 <= Len(text)
    /\ SubSeq(text, start, start + Len(alias) - 1) = alias
    /\ start = 1 \/ text[start - 1] \notin AlnumLower
    /\ start + Len(alias) > Len(text) \/ text[start + Len(alias)] \notin AlnumLower

\* pattern.finditer(text): the spans (start, end) of the matches, left to
\* right, each search starting where the last match ended.
RECURSIVE finditer(_, _, _)
finditer(text, alias, start) ==
    IF start + Len(alias) - 1 > Len(text) THEN <<>>
    ELSE IF PatternMatchesAt(text, alias, start)
         THEN <<<<start, start + Len(alias)>>>> \o finditer(text, alias, start + Len(alias))
         ELSE finditer(text, alias, start + 1)

\* Faulty variant of the span loop: every span is accepted.
AcceptEverySpan(spans, occupied_spans) ==
    occupied_spans \o spans

\* Lines 1298-1304: the spans of one pattern that overlap no occupied span.
RECURSIVE AcceptSpans(_, _)
AcceptSpans(spans, occupied_spans) ==
    IF spans = <<>> THEN occupied_spans
    ELSE LET start == Head(spans)[1]
             end == Head(spans)[2]
             overlaps == \E i \in 1..Len(occupied_spans) :
                            ~(end <= occupied_spans[i][1] \/ start >= occupied_spans[i][2])
         IN AcceptSpans(Tail(spans),
                        IF overlaps THEN occupied_spans
                        ELSE Append(occupied_spans, Head(spans)))

RECURSIVE OccupiedSpans(_, _, _)
OccupiedSpans(normalized_story_text, alias_specs, occupied_spans) ==
    IF alias_specs = <<>> THEN occupied_spans
    ELSE OccupiedSpans(normalized_story_text, Tail(alias_specs),
                       AcceptSpans(finditer(normalized_story_text, Head(alias_specs).alias, 1),
                                   occupied_spans))

\* Lines 1290-1306: one is counted for every span appended.
_count_story_mentions(normalized_story_text, alias_specs) ==
    Len(OccupiedSpans(normalized_story_text, alias_specs, <<>>))

\* str(n) for a one-digit n
str(n) ==
    <<CHOOSE d \in Digits : Ord[d] = Ord["0"] + n>>

\* Lines 1351-1363: the companies that a story mentions, with the counts.
MatchedCompanies(company_ids, specs_by_company, normalized_story_text) ==
    LET story_tokens == SeqToSet(SplitFrom(normalized_story_text, " ", 1, <<>>))
        alias_specs(company_id) ==
            IF DictHas(specs_by_company, company_id)
            THEN DictGet(specs_by_company, company_id) ELSE <<>>
        mention_count(company_id) ==
            _count_story_mentions(normalized_story_text, alias_specs(company_id))
        matched(company_id) ==
            /\ alias_specs(company_id) # <<>>
            /\ \E i \in 1..Len(alias_specs(company_id)) :
                  alias_specs(company_id)[i].first_token \in story_tokens
            /\ mention_count(company_id) > 0
        matched_ids == SelectSeq(company_ids, matched)
    IN [i \in 1..Len(matched_ids) |-> <<matched_ids[i], mention_count(matched_ids[i])>>]

\* Faulty variant of the row loop: seen_company_story is not consulted.
RECURSIVE AppendRowsAlsoSeen(_, _, _)
AppendRowsAlsoSeen(matched_companies, story_row, found) ==
    IF matched_companies = <<>> THEN found
    ELSE AppendRowsAlsoSeen(Tail(matched_companies), story_row,
            [found EXCEPT !.story_mentions =
                Append(@, [company_id |-> Head(matched_companies)[1],
                           story_id |-> story_row.story_id,
                           story_title |-> story_row.story_title,
                           story_url |-> story_row.story_url,
                           post_title |-> story_row.post_title,
                           story_date |-> story_row.story_date,
                           story_position |-> story_row.story_position,
                           story_source |-> story_row.story_source,
                           mention_count |-> Head(matched_companies)[2]])])

\* Lines 1368-1385: a row for every matched company not yet seen with the
\* story.  found holds seen_company_story and story_mentions.
RECURSIVE AppendRows(_, _, _)
AppendRows(matched_companies, story_row, found) ==
    IF matched_companies = <<>> THEN found
    ELSE LET company_id == Head(matched_companies)[1]
             dedupe_key == <<company_id, story_row.story_id>>
         IN AppendRows(Tail(matched_companies), story_row,
                IF dedupe_key \in found.seen_company_story THEN found
                ELSE [seen_company_story |-> found.seen_company_story \cup {dedupe_key},
                      story_mentions |->
                          Append(found.story_mentions,
                                 [company_id |-> company_id,
                                  story_id |-> story_row.story_id,
                                  story_title |-> story_row.story_title,
                                  story_url |-> story_row.story_url,
                                  post_title |-> story_row.post_title,
                                  story_date |-> story_row.story_date,
                                  story_position |-> story_row.story_position,
                                  story_source |-> story_row.story_source,
                                  mention_count |-> Head(matched_companies)[2]])])

\* Lines 1339-1349: the title and the id of a story.
StoryTitle(post, story) ==
    IF strip(StoryText[story.title]) # <<>> THEN strip(StoryText[story.title])
    ELSE IF strip(StoryText[post.title]) # <<>> THEN strip(StoryText[post.title])
    ELSE <<"D", "a", "i", "l", "y", " ", "B", "r", "i", "e", "f", " ", "s", "t", "o", "r", "y">>

StoryId(post, story) ==
    IF strip(StoryText[story.story_id]) # <<>> THEN strip(StoryText[story.story_id])
    ELSE slugify(strip(StoryText[post.url]) \o <<"-">> \o str(story.position)
                    \o <<"-">> \o StoryTitle(post, story))

\* Lines 1339-1385: one story of a post.
Story(found, company_ids, specs_by_company, post, story) ==
    LET normalized_story_text == _normalize_alias_phrase(strip(StoryText[story.text]))
    IN IF normalized_story_text = <<>> THEN found
       ELSE AppendRows(MatchedCompanies(company_ids, specs_by_company, normalized_story_text),
                       [story_id |-> StoryId(post, story),
                        story_title |-> StoryTitle(post, story),
                        story_url |-> strip(StoryText[post.url]),
                        post_title |-> strip(StoryText[post.title]),
                        story_date |-> strip(StoryText[IF post.date # "" THEN post.date
                                                       ELSE post.sitemap_lastmod]),
                        story_position |-> story.position,
                        story_source |-> StoryText[story.source]],
                       found)

RECURSIVE Stories(_, _, _, _, _)
Stories(found, company_ids, specs_by_company, post, stories) ==
    IF stories = <<>> THEN found
    ELSE Stories(Story(found, company_ids, specs_by_company, post, Head(stories)),
                 company_ids, specs_by_company, post, Tail(stories))

\* Lines 1325-1385: one post; a post without URL is passed over.
Post(found, company_ids, specs_by_company, post) ==
    IF strip(StoryText[post.url]) = <<>> THEN found
    ELSE Stories(found, company_ids, specs_by_company, post, post.stories)

\* The contents of dailybrief_alias_rules.json.
NoDailybriefRules ==
    [company_aliases |-> <<>>, alias_overrides |-> <<>>, blocked_aliases |-> <<>>,
     strict_companies |-> <<>>, company_blocked_aliases |-> <<>>]


(***************************************************************************)
(* Inputs.  The raw companies are drawn from a corpus of scraped records   *)
(* (the id of a record is the slug of its name); the rows are drawn from   *)
(* row corpora and refer to companies of the input; the rule files are     *)
(* drawn from RuleFiles.                                                   *)
(***************************************************************************)
MaxCompanies ==
    3

MaxQuotes ==
    2

MaxMentions ==
    1

Corpus ==
    <<[id |-> "reliance-industries", name |-> "Reliance Industries",
       url |-> "https://www.zerodha.com/markets/stocks/nse/reliance/"],
      [id |-> "acme-ltd", name |-> "Acme Ltd", url |-> None],
      [id |-> "acme-acme", name |-> "Acme Acme", url |-> None],
      [id |-> "acme-india", name |-> "Acme India",
       url |-> "https://zerodha.com/markets/stocks/NSE/ACME/"],
      [id |-> "zen", name |-> "Zen",
       url |-> "https://thechatter.zerodha.com/markets/stocks/BSE/ZEN/"],
      [id |-> "acme", name |-> "Acme",
       url |-> "https://zerodha.com/markets/stocks/NSE/ACME/"],
      [id |-> "comment-on-acme", name |-> "Comment on Acme",
       url |-> "https://zerodha.com/markets/stocks/NSE/ACME/"],
      [id |-> "acme-group", name |-> "Acme Group",
       url |-> "https://zerodha.com/markets/stocks/acme-group/"],
      [id |-> "reliance-consumer-products", name |-> "Reliance Consumer Products",
       url |-> "https://www.zerodha.com/markets/stocks/nse/reliance/"],
      [id |-> "acme-limited", name |-> "Acme Limited",
       url |-> "https://zerodha.com/markets/stocks/BSE/ACME/"]>>

NoNonCompanyRules ==
    [exact_names |-> {}, allow_names |-> {}, name_patterns |-> {}]

\* The contents of entity_alias_rules.json, entity_block_rules.json and
\* non_company_rules.json.
RuleFiles ==
    {[aliases |-> {}, blocks |-> {}, non_company |-> NoNonCompanyRules],
     [aliases |-> {<<"Acme India", "Zen">>}, blocks |-> {},
      non_company |-> NoNonCompanyRules],
     [aliases |-> {<<"Reliance Industries Ltd", "Reliance Consumer Products">>,
                   <<"Acme India", "Acme Group">>},
      blocks |-> {}, non_company |-> NoNonCompanyRules],
     [aliases |-> {}, blocks |-> {<<"Acme", "Acme India">>},
      non_company |-> NoNonCompanyRules],
     [aliases |-> {}, blocks |-> {},
      non_company |-> [exact_names |-> {"ACME GROUP"}, allow_names |-> {},
                       name_patterns |-> {}]],
     [aliases |-> {}, blocks |-> {},
      non_company |-> [exact_names |-> {},
                       allow_names |-> {"Acme Group", "Comment on Acme"},
                       name_patterns |-> {"group"}]]}

\* The sub-lists of the corpus with at most MaxCompanies records.
RECURSIVE SubList(_, _, _)
SubList(seq, picked, i) ==
    IF i > Len(seq) THEN <<>>
    ELSE (IF i \in picked THEN <<seq[i]>> ELSE <<>>) \o SubList(seq, picked, i + 1)

CompanyLists ==
    {SubList(Corpus, picked, 1) :
        picked \in {p \in SUBSET (1..Len(Corpus)) : Cardinality(p) \in 1..MaxCompanies}}

\* The scraped quote rows and mention rows, in file order.
QuoteCorpus ==
    <<[id |-> "q1", company_id |-> "comment-on-acme", edition_id |-> "e1"],
      [id |-> "q2", company_id |-> "acme", edition_id |-> "e1"],
      [id |-> "q3", company_id |-> "acme-group", edition_id |-> "e1"],
      [id |-> "q4", company_id |-> "acme", edition_id |-> "e2"],
      [id |-> "q5", company_id |-> "reliance-consumer-products", edition_id |-> "e2"],
      [id |-> "q6", company_id |-> "acme-india", edition_id |-> "e2"]>>

MentionCorpus ==
    <<[id |-> "m1", company_id |-> "comment-on-acme", edition_id |-> "e1"],
      [id |-> "m2", company_id |-> "acme-group", edition_id |-> "e1"],
      [id |-> "m3", company_id |-> "acme-india", edition_id |-> "e2"]>>

\* The sub-lists of at most max rows of the corpus that refer to the given
\* company ids.
RowLists(corpus, ids, max) ==
    {SubList(corpus, picked, 1) :
        picked \in {p \in SUBSET {i \in 1..Len(corpus) : corpus[i].company_id \in ids} :
                        Cardinality(p) <= max}}

EmptyRun(cs, qs, ms, files) ==
    [companies |-> cs,
     quotes |-> qs,
     mentions |-> ms,
     alias_payload |-> files.aliases,
     block_payload |-> files.blocks,
     non_company_payload |-> files.non_company,
     alias_pairs |-> {},
     block_pairs |-> {},
     non_company_rules |-> [exact_name_keys |-> {}, allow_name_keys |-> {}, name_patterns |-> {}],
     quote_count_by_company |-> <<>>,
     mention_count_by_company |-> <<>>,
     companies_by_id |-> <<>>,
     market_key_by_company_id |-> <<>>,
     parent |-> <<>>,
     quarantined_company_reason |-> <<>>,
     market_groups |-> <<>>,
     market_conflicts |-> <<>>,
     cross_bucket_merges |-> <<>>,
     grouped_company_ids |-> <<>>,
     alias_map |-> <<>>,
     merged_companies |-> <<>>,
     merged_groups |-> <<>>,
     merged_quotes |-> <<>>,
     merged_mentions |-> <<>>,
     dropped_quote_rows |-> 0,
     dropped_mention_rows |-> 0,
     resolution_report |-> [counts |-> <<>>, quarantined_companies |-> <<>>]]

VARIABLES
    pc,
    companies,
    quotes,
    mentions,
    alias_payload,
    block_payload,
    non_company_payload,
    alias_pairs,
    block_pairs,
    non_company_rules,
    quote_count_by_company,
    mention_count_by_company,
    companies_by_id,
    market_key_by_company_id,
    parent,
    quarantined_company_reason,
    market_groups,
    market_conflicts,
    cross_bucket_merges,
    grouped_company_ids,
    alias_map,
    merged_companies,
    merged_groups,
    merged_quotes,
    merged_mentions,
    dropped_quote_rows,
    dropped_mention_rows,
    resolution_report,
    dailybrief_alias_payload,
    dailybrief_posts,
    alias_rules,
    aliases_by_company,
    alias_specs_by_company,
    post_index,
    seen_company_story,
    story_mentions

vars ==
    <<pc, companies, quotes, mentions, alias_payload,
      block_payload, non_company_payload, alias_pairs, block_pairs,
      non_company_rules, quote_count_by_company, mention_count_by_company, companies_by_id,
      market_key_by_company_id, parent, quarantined_company_reason, market_groups,
      market_conflicts, cross_bucket_merges, grouped_company_ids, alias_map,
      merged_companies, merged_groups, merged_quotes, merged_mentions,
      dropped_quote_rows, dropped_mention_rows, resolution_report,
      dailybrief_alias_payload, dailybrief_posts, alias_rules, aliases_by_company,
      alias_specs_by_company, post_index, seen_company_story, story_mentions>>

\* The arguments and locals of build_dailybrief_story_mentions.
story_vars ==
    <<dailybrief_alias_payload, dailybrief_posts, alias_rules, aliases_by_company,
      alias_specs_by_company, post_index, seen_company_story, story_mentions>>

\* The locals of merge_company_variants.
merge_vars ==
    <<companies, quotes, mentions, alias_payload,
      block_payload, non_company_payload, alias_pairs, block_pairs,
      non_company_rules, quote_count_by_company, mention_count_by_company, companies_by_id,
      market_key_by_company_id, parent, quarantined_company_reason, market_groups,
      market_conflicts, cross_bucket_merges, grouped_company_ids, alias_map,
      merged_companies, merged_groups, merged_quotes, merged_mentions,
      dropped_quote_rows, dropped_mention_rows, resolution_report>>

\* The locals of the call in progress, as a run record.
Run ==
    [companies |-> companies,
     quotes |-> quotes,
     mentions |-> mentions,
     alias_payload |-> alias_payload,
     block_payload |-> block_payload,
     non_company_payload |-> non_company_payload,
     alias_pairs |-> alias_pairs,
     block_pairs |-> block_pairs,
     non_company_rules |-> non_company_rules,
     quote_count_by_company |-> quote_count_by_company,
     mention_count_by_company |-> mention_count_by_company,
     companies_by_id |-> companies_by_id,
     market_key_by_company_id |-> market_key_by_company_id,
     parent |-> parent,
     quarantined_company_reason |-> quarantined_company_reason,
     market_groups |-> market_groups,
     market_conflicts |-> market_conflicts,
     cross_bucket_merges |-> cross_bucket_merges,
     grouped_company_ids |-> grouped_company_ids,
     alias_map |-> alias_map,
     merged_companies |-> merged_companies,
     merged_groups |-> merged_groups,
     merged_quotes |-> merged_quotes,
     merged_mentions |-> merged_mentions,
     dropped_quote_rows |-> dropped_quote_rows,
     dropped_mention_rows |-> dropped_mention_rows,
     resolution_report |-> resolution_report]

\* The next state holds the run record r.
Install(r) ==
    /\ companies' = r.companies
    /\ quotes' = r.quotes
    /\ mentions' = r.mentions
    /\ alias_payload' = r.alias_payload
    /\ block_payload' = r.block_payload
    /\ non_company_payload' = r.non_company_payload
    /\ alias_pairs' = r.alias_pairs
    /\ block_pairs' = r.block_pairs
    /\ non_company_rules' = r.non_company_rules
    /\ quote_count_by_company' = r.quote_count_by_company
    /\ mention_count_by_company' = r.mention_count_by_company
    /\ companies_by_id' = r.companies_by_id
    /\ market_key_by_company_id' = r.market_key_by_company_id
    /\ parent' = r.parent
    /\ quarantined_company_reason' = r.quarantined_company_reason
    /\ market_groups' = r.market_groups
    /\ market_conflicts' = r.market_conflicts
    /\ cross_bucket_merges' = r.cross_bucket_merges
    /\ grouped_company_ids' = r.grouped_company_ids
    /\ alias_map' = r.alias_map
    /\ merged_companies' = r.merged_companies
    /\ merged_groups' = r.merged_groups
    /\ merged_quotes' = r.merged_quotes
    /\ merged_mentions' = r.merged_mentions
    /\ dropped_quote_rows' = r.dropped_quote_rows
    /\ dropped_mention_rows' = r.dropped_mention_rows
    /\ resolution_report' = r.resolution_report
    /\ UNCHANGED story_vars

\* The state holds the run record r.
Holds(r) ==
    /\ companies = r.companies
    /\ quotes = r.quotes
    /\ mentions = r.mentions
    /\ alias_payload = r.alias_payload
    /\ block_payload = r.block_payload
    /\ non_company_payload = r.non_company_payload
    /\ alias_pairs = r.alias_pairs
    /\ block_pairs = r.block_pairs
    /\ non_company_rules = r.non_company_rules
    /\ quote_count_by_company = r.quote_count_by_company
    /\ mention_count_by_company = r.mention_count_by_company
    /\ companies_by_id = r.companies_by_id
    /\ market_key_by_company_id = r.market_key_by_company_id
    /\ parent = r.parent
    /\ quarantined_company_reason = r.quarantined_company_reason
    /\ market_groups = r.market_groups
    /\ market_conflicts = r.market_conflicts
    /\ cross_bucket_merges = r.cross_bucket_merges
    /\ grouped_company_ids = r.grouped_company_ids
    /\ alias_map = r.alias_map
    /\ merged_companies = r.merged_companies
    /\ merged_groups = r.merged_groups
    /\ merged_quotes = r.merged_quotes
    /\ merged_mentions = r.merged_mentions
    /\ dropped_quote_rows = r.dropped_quote_rows
    /\ dropped_mention_rows = r.dropped_mention_rows
    /\ resolution_report = r.resolution_report

\* build_dailybrief_story_mentions has not been called.
NoStoryCall ==
    /\ dailybrief_alias_payload = NoDailybriefRules
    /\ dailybrief_posts = <<>>
    /\ alias_rules = _load_dailybrief_alias_rules(NoDailybriefRules)
    /\ aliases_by_company = <<>>
    /\ alias_specs_by_company = <<>>
    /\ post_index = 1
    /\ seen_company_story = {}
    /\ story_mentions = <<>>

Init ==
    /\ pc = "prepare"
    /\ NoStoryCall
    /\ \E cs \in CompanyLists, files \in RuleFiles :
         \E qs \in RowLists(QuoteCorpus, SeqToSet(IdsOf(cs)), MaxQuotes),
            ms \in RowLists(MentionCorpus, SeqToSet(IdsOf(cs)), MaxMentions) :
             Holds(EmptyRun(cs, qs, ms, files))

DoPrepare ==
    /\ pc = "prepare"
    /\ pc' = "alias"
    /\ Install(Prepare(Run))

DoAliasPass ==
    /\ pc = "alias"
    /\ pc' = "market_union"
    /\ \E order \in IterationOrders(alias_pairs) : Install(AliasPass(Run, order))

DoMarketUnion ==
    /\ pc = "market_union"
    /\ pc' = "market_conflicts"
    /\ Install(MarketUnion(Run))

DoMarketConflicts ==
    /\ pc = "market_conflicts"
    /\ pc' = "name_buckets"
    /\ Install(MarketConflicts(Run))

DoNameBuckets ==
    /\ pc = "name_buckets"
    /\ pc' = "cross_bucket"
    /\ Install(NameBuckets(Run))

DoCrossBucket ==
    /\ pc = "cross_bucket"
    /\ pc' = "refine"
    /\ Install(CrossBucket(Run))

DoRefine ==
    /\ pc = "refine"
    /\ pc' = "canonicalize"
    /\ Install(Refine(Run))

DoCanonicalize ==
    /\ pc = "canonicalize"
    /\ pc' = "rewrite"
    /\ Install(Canonicalize(Run))

DoRewriteRows ==
    /\ pc = "rewrite"
    /\ pc' = "report"
    /\ Install(RewriteRows(Run))

DoReport ==
    /\ pc = "report"
    /\ pc' = "done"
    /\ Install(Report(Run))

Next ==
    \/ DoPrepare
    \/ DoAliasPass
    \/ DoMarketUnion
    \/ DoMarketConflicts
    \/ DoNameBuckets
    \/ DoCrossBucket
    \/ DoRefine
    \/ DoCanonicalize
    \/ DoRewriteRows
    \/ DoReport

Spec ==
    Init /\ [][Next]_vars

\* The alias rule files that a call can find.
DailybriefRuleFiles ==
    {NoDailybriefRules,
     [NoDailybriefRules EXCEPT
         !.company_aliases = <<[k |-> "acme-india", v |-> <<"India Acme">>]>>,
         !.alias_overrides = <<[k |-> "ACME", v |-> "acme-limited"]>>],
     [NoDailybriefRules EXCEPT
         !.company_aliases = <<[k |-> "zen", v |-> <<"Zen Tech", "Acme & Co", "42">>]>>,
         !.blocked_aliases = <<"Acme India">>,
         !.company_blocked_aliases = <<[k |-> "acme-limited", v |-> <<"ACME">>]>>],
     [NoDailybriefRules EXCEPT
         !.company_aliases = <<[k |-> "acme", v |-> <<"Acme Corp", "AC", "">>]>>,
         !.alias_overrides = <<[k |-> "Acme Corp", v |-> "zen"]>>,
         !.strict_companies = <<"acme">>]}

\* The posts of dailybrief_posts.json, in file order.
PostCorpus ==
    <<[url |-> "https://thedailybrief.zerodha.com/p/acme-results",
       title |-> "Acme results", date |-> "2026-01-05", sitemap_lastmod |-> "",
       stories |->
           <<[story_id |-> "s1", title |-> "Acme beats estimates", position |-> 1,
              source |-> "substack",
              text |-> "Acme India & Acme Group rallied; ACME fell. Acme India again."],
             [story_id |-> "", title |-> "", position |-> 2, source |-> "",
              text |-> "Zen Tech (ZEN) and Reliance Industries met Acme Corp"]>>],
      [url |-> "https://thedailybrief.zerodha.com/p/markets-today",
       title |-> "Markets today", date |-> "", sitemap_lastmod |-> "2026-01-06",
       stories |->
           <<[story_id |-> "s1", title |-> "", position |-> 0, source |-> "",
              text |-> "acme acme acme"],
             [story_id |-> "s2", title |-> "Markets today", position |-> 1, source |-> "",
              text |-> "!!!"],
             [story_id |-> "s3", title |-> "", position |-> 2, source |-> "",
              text |-> "Acme India Acme India"]>>],
      [url |-> "", title |-> "Markets today", date |-> "2026-01-06", sitemap_lastmod |-> "",
       stories |->
           <<[story_id |-> "s2", title |-> "", position |-> 0, source |-> "",
              text |-> "acme acme acme"]>>]>>

\* The lists of posts that a call can be given.
PostLists ==
    {SubList(PostCorpus, picked, 1) : picked \in SUBSET (1..Len(PostCorpus))}

(***************************************************************************)
(* A call of build_dailybrief_story_mentions on the canonical companies    *)
(* and the merged groups of a finished run of merge_company_variants; the  *)
(* other locals of that run are out of scope here.                         *)
(***************************************************************************)
\* The run record that holds the canonical companies and the merged groups
\* of run r and nothing else.
ResultOf(r) ==
    [EmptyRun(<<>>, <<>>, <<>>,
              [aliases |-> {}, blocks |-> {}, non_company |-> NoNonCompanyRules]) EXCEPT
        !.merged_companies = r.merged_companies,
        !.merged_groups = r.merged_groups]

StoryInit ==
    /\ pc = "story_rules"
    /\ \E cs \in CompanyLists, files \in RuleFiles :
          \E order \in IterationOrders(_load_rule_pairs(files.aliases)) :
              Holds(ResultOf(MergeRun(EmptyRun(cs, <<>>, <<>>, files), order)))
    /\ dailybrief_alias_payload \in DailybriefRuleFiles
    /\ dailybrief_posts \in PostLists
    /\ alias_rules = _load_dailybrief_alias_rules(NoDailybriefRules)
    /\ aliases_by_company = <<>>
    /\ alias_specs_by_company = <<>>
    /\ post_index = 1
    /\ seen_company_story = {}
    /\ story_mentions = <<>>

\* Line 1316
DoLoadAliasRules ==
    /\ pc = "story_rules"
    /\ pc' = "story_aliases"
    /\ alias_rules' = _load_dailybrief_alias_rules(dailybrief_alias_payload)
    /\ UNCHANGED <<merge_vars, dailybrief_alias_payload, dailybrief_posts, aliases_by_company,
                   alias_specs_by_company, post_index, seen_company_story, story_mentions>>

\* Line 1317
DoBuildAliasMap ==
    /\ pc = "story_aliases"
    /\ pc' = "story_specs"
    /\ aliases_by_company' = _build_company_alias_map(merged_companies, merged_groups, alias_rules)
    /\ UNCHANGED <<merge_vars, dailybrief_alias_payload, dailybrief_posts, alias_rules,
                   alias_specs_by_company, post_index, seen_company_story, story_mentions>>

\* Line 1318
DoBuildAliasSpecs ==
    /\ pc = "story_specs"
    /\ pc' = "story_posts"
    /\ alias_specs_by_company' \in _build_company_alias_specs(aliases_by_company, alias_rules)
    /\ UNCHANGED <<merge_vars, dailybrief_alias_payload, dailybrief_posts, alias_rules,
                   aliases_by_company, post_index, seen_company_story, story_mentions>>

\* Lines 1319, 1324-1385: the next post.
DoPost ==
    /\ pc = "story_posts"
    /\ post_index <= Len(dailybrief_posts)
    /\ LET company_ids == SelectSeq(IdsOf(merged_companies), LAMBDA id : strip(IdText[id]) # <<>>)
           found == Post([seen_company_story |-> seen_company_story,
                          story_mentions |-> story_mentions],
                         company_ids, alias_specs_by_company, dailybrief_posts[post_index])
       IN /\ seen_company_story' = found.seen_company_story
          /\ story_mentions' = found.story_mentions
    /\ post_index' = post_index + 1
    /\ UNCHANGED <<pc, merge_vars, dailybrief_alias_payload, dailybrief_posts, alias_rules,
                   aliases_by_company, alias_specs_by_company>>

\* Line 1387
DoReturnStoryMentions ==
    /\ pc = "story_posts"
    /\ post_index > Len(dailybrief_posts)
    /\ pc' = "story_done"
    /\ UNCHANGED <<merge_vars, story_vars>>

StoryNext ==
    \/ DoLoadAliasRules
    \/ DoBuildAliasMap
    \/ DoBuildAliasSpecs
    \/ DoPost
    \/ DoReturnStoryMentions

StorySpec ==
    StoryInit /\ [][StoryNext]_vars

(***************************************************************************)
(* Properties of merge_company_variants.                                   *)
(***************************************************************************)
CanonicalIds ==
    {merged_companies[i].id : i \in 1..Len(merged_companies)}

\* The ids of the quarantined_companies table of the report.
QuarantineTable ==
    {resolution_report.quarantined_companies[i].id :
        i \in 1..Len(resolution_report.quarantined_companies)}

RawIds ==
    SeqToSet(IdsOf(companies))

RuleKeyOfId(company_id) ==
    rule_key_of[(CHOOSE c \in SeqToSet(companies) : c.id = company_id).name]

\* C1: after the run every raw company id is in exactly one of the key set
\* of alias_map and the quarantine table of the report, never in both and
\* never in neither.
C1_AliasMapXorQuarantine ==
    pc = "done" =>
        \A id \in RawIds : (id \in DOMAIN alias_map) # (id \in QuarantineTable)

\* A finished run that quarantined one id as a non-company label, another as
\* the loser of a market key conflict, and mapped a third.
C1_Witness ==
    /\ pc = "done"
    /\ \E a, b \in QuarantineTable :
          /\ quarantined_company_reason[a] = "non_company_label"
          /\ quarantined_company_reason[b] = "market_key_conflict_mentions_only"
    /\ DOMAIN alias_map # {}

\* C2: two distinct canonical companies never carry the same non-empty
\* market key.
C2_CanonicalMarketKeysDistinct ==
    pc = "done" =>
        \A i, j \in 1..Len(merged_companies) :
            i # j => \/ merged_companies[i].market_key = NoMarketKey
                     \/ merged_companies[i].market_key # merged_companies[j].market_key

\* C3: two raw ids whose name keys form a block pair never map to the same
\* canonical id, also when an alias pair names the same two keys.
C3_BlockPairsKeptApart ==
    pc = "done" =>
        \A a, b \in DOMAIN alias_map :
            {RuleKeyOfId(a), RuleKeyOfId(b)} \in block_pairs => alias_map[a] # alias_map[b]

\* A finished run in which a pair is both an alias pair and a block pair and
\* both names survive into alias_map.
C3_Witness ==
    /\ pc = "done"
    /\ \E a, b \in DOMAIN alias_map :
          /\ {RuleKeyOfId(a), RuleKeyOfId(b)} \in block_pairs \cap alias_pairs
          /\ {RuleKeyOfId(a), RuleKeyOfId(b)} = HARD_CODED_BLOCK_PAIR

\* A name key is blocked when some block pair holds it.
BlockedKey(key) ==
    \E pair \in block_pairs : key \in pair

\* C4: two surviving raw ids whose name keys form an alias pair, neither key
\* blocked, map to the same canonical id.
C4_AliasPairsMerged ==
    pc = "done" =>
        \A a, b \in DOMAIN alias_map :
            (/\ {RuleKeyOfId(a), RuleKeyOfId(b)} \in alias_pairs
             /\ ~BlockedKey(RuleKeyOfId(a))
             /\ ~BlockedKey(RuleKeyOfId(b)))
                => alias_map[a] = alias_map[b]

\* C5: canonical ids are fixed points of alias_map and pairwise distinct,
\* and every value of alias_map is the id of exactly one canonical company.
C5_CanonicalIdsFixedPoints ==
    pc = "done" =>
        /\ \A i \in 1..Len(merged_companies) :
              /\ merged_companies[i].id \in DOMAIN alias_map
              /\ alias_map[merged_companies[i].id] = merged_companies[i].id
        /\ \A i, j \in 1..Len(merged_companies) :
              merged_companies[i].id = merged_companies[j].id => i = j
        /\ \A id \in DOMAIN alias_map :
              Cardinality({i \in 1..Len(merged_companies) :
                              merged_companies[i].id = alias_map[id]}) = 1

\* A finished run with several canonical companies, one of them merged from
\* several raw ids.
C5_Witness ==
    /\ pc = "done"
    /\ Len(merged_companies) >= 2
    /\ \E a, b \in DOMAIN alias_map : a # b /\ alias_map[a] = alias_map[b]

RowsPreserved(input, output) ==
    LET kept == {i \in 1..Len(input) : input[i].company_id \notin QuarantineTable}
    IN /\ Len(output) = Cardinality(kept)
       /\ \A k \in 1..Len(output) :
             \E i \in kept :
                /\ Cardinality({j \in kept : j <= i}) = k
                /\ output[k].id = input[i].id
                /\ output[k].edition_id = input[i].edition_id
                /\ DOMAIN output[k] = DOMAIN input[i]

\* C7: the row rewriter outputs exactly the rows whose company is not
\* quarantined, in input order, unchanged but for company_id, and the
\* counters of the report add up.
C7_RowsKeptInOrder ==
    pc = "done" =>
        /\ RowsPreserved(quotes, merged_quotes)
        /\ RowsPreserved(mentions, merged_mentions)
        /\ resolution_report.counts.output_quotes + resolution_report.counts.dropped_quote_rows
              = resolution_report.counts.input_quotes
        /\ resolution_report.counts.output_mentions + resolution_report.counts.dropped_mention_rows
              = resolution_report.counts.input_mentions
        /\ resolution_report.counts.input_quotes = Len(quotes)
        /\ resolution_report.counts.output_quotes = Len(merged_quotes)
        /\ resolution_report.counts.input_mentions = Len(mentions)
        /\ resolution_report.counts.output_mentions = Len(merged_mentions)

\* A finished run that dropped a quote row and a mention row and kept a
\* quote row that follows a dropped one.
C7_Witness ==
    /\ pc = "done"
    /\ resolution_report.counts.dropped_mention_rows > 0
    /\ Len(quotes) = 2
    /\ quotes[1].company_id \in QuarantineTable
    /\ quotes[2].company_id \notin QuarantineTable
    /\ Len(merged_quotes) = 1

\* The non-company predicate of the pre-pass on a display name.
IsNonCompanyLabel(name) ==
    \/ _matches_non_company_rules(strip(Text[name]), non_company_rules)
    \/ _looks_like_topic_or_sentence(strip(Text[name]))

\* C8: no canonical company has a display name that triggers the
\* non-company predicate.
C8_NoNonCompanyDisplayName ==
    pc = "done" =>
        \A i \in 1..Len(merged_companies) : ~IsNonCompanyLabel(merged_companies[i].name)

\* A finished run in which one raw name matched the rules, another the
\* sentence heuristic, and a canonical company came out.
C8_Witness ==
    /\ pc = "done"
    /\ merged_companies # <<>>
    /\ \E c \in SeqToSet(companies) :
          _matches_non_company_rules(strip(Text[c.name]), non_company_rules)
    /\ \E c \in SeqToSet(companies) :
          /\ ~_matches_non_company_rules(strip(Text[c.name]), non_company_rules)
          /\ _looks_like_topic_or_sentence(strip(Text[c.name]))

\* The lists that hold the elements of seq in another order.
Permuted(seq) ==
    {[i \in 1..Len(seq) |-> seq[p[i]]] : p \in IterationOrders(1..Len(seq))}

\* What C9 compares: ids, display names and market keys of the canonical
\* companies, the alias map and the counts.
CanonicalOutput(r) ==
    [canonical |-> {[id |-> c.id, name |-> c.name, market_key |-> c.market_key] :
                        c \in SeqToSet(r.merged_companies)},
     alias_map |-> r.alias_map,
     counts |-> r.resolution_report.counts]

\* C9: a run on any permutation of the companies, quotes and mentions
\* yields the canonical companies, alias map and counts of this run.
C9_OrderIndependent ==
    pc = "done" =>
        \A cs \in Permuted(companies), qs \in Permuted(quotes), ms \in Permuted(mentions) :
            \A order \in IterationOrders(alias_pairs) :
                CanonicalOutput(MergeRun(
                    EmptyRun(cs, qs, ms,
                             [aliases |-> alias_payload, blocks |-> block_payload,
                              non_company |-> non_company_payload]), order))
                    = CanonicalOutput(Run)

\* The block pairs that C10 adds to the block rules.
AddedBlockPairs ==
    {<<"Acme", "Acme India">>, <<"Acme", "Acme Group">>, <<"Acme India", "Zen">>}

\* C10: with one more block pair, no two raw ids that this run maps to
\* different canonical ids map to the same canonical id.
C10_BlockMonotone ==
    pc = "done" =>
        \A extra \in AddedBlockPairs :
            \A order \in IterationOrders(alias_pairs) :
                LET after == MergeRun(
                        EmptyRun(companies, quotes, mentions,
                                 [aliases |-> alias_payload,
                                  blocks |-> block_payload \cup {extra},
                                  non_company |-> non_company_payload]), order)
                IN \A a, b \in DOMAIN alias_map :
                      alias_map[a] # alias_map[b] =>
                          ~(/\ a \in DOMAIN after.alias_map
                            /\ b \in DOMAIN after.alias_map
                            /\ after.alias_map[a] = after.alias_map[b])

\* The alias pairs that C11 adds to the alias rules.
AddedAliasPairs ==
    {<<"Acme India", "Zen">>, <<"Acme", "Zen">>, <<"Acme Group", "Acme India">>,
     <<"Acme", "Acme Group">>}

\* C11: with one more alias pair, every two raw ids that this run maps to
\* the same canonical id are still mapped, and to the same canonical id.
C11_AliasMonotone ==
    pc = "done" =>
        \A extra \in AddedAliasPairs :
            \A order \in IterationOrders(_load_rule_pairs(alias_payload \cup {extra})) :
                LET after == MergeRun(
                        EmptyRun(companies, quotes, mentions,
                                 [aliases |-> alias_payload \cup {extra},
                                  blocks |-> block_payload,
                                  non_company |-> non_company_payload]), order)
                IN \A a, b \in DOMAIN alias_map :
                      alias_map[a] = alias_map[b] =>
                          /\ a \in DOMAIN after.alias_map
                          /\ b \in DOMAIN after.alias_map
                          /\ after.alias_map[a] = after.alias_map[b]

\* The canonical companies of a run as raw companies.
AsRawCompanies(merged) ==
    [i \in 1..Len(merged) |->
        [id |-> merged[i].id, name |-> merged[i].name, url |-> merged[i].url]]

\* C12: a second run on the canonical companies and the rewritten rows of
\* this run, under the same rule files, yields the same list of canonical
\* companies and quarantines nothing.
C12_Idempotent ==
    pc = "done" =>
        \A order \in IterationOrders(alias_pairs) :
            LET again == MergeRun(
                    EmptyRun(AsRawCompanies(merged_companies), merged_quotes, merged_mentions,
                             [aliases |-> alias_payload, blocks |-> block_payload,
                              non_company |-> non_company_payload]), order)
            IN /\ again.merged_companies = merged_companies
               /\ DOMAIN again.quarantined_company_reason = {}

\* The market key of the URL that a raw company came in with.
RawMarketKey(c) ==
    market_key_of_url[c.url]

\* The canonical companies that carry market key key.
KeepersOf(key) ==
    {i \in 1..Len(merged_companies) : merged_companies[i].market_key = key}

\* C13: two raw companies with the same market key and incompatible names
\* end in two canonical companies, exactly one of which carries the key.
C13_SharedKeySplit ==
    pc = "done" =>
        \A i, j \in 1..Len(companies) :
            (/\ RawMarketKey(companies[i]) # NoMarketKey
             /\ RawMarketKey(companies[i]) = RawMarketKey(companies[j])
             /\ ~_are_company_names_compatible(companies[i].name, companies[j].name,
                                               alias_pairs, block_pairs))
                => /\ companies[i].id \in DOMAIN alias_map
                   /\ companies[j].id \in DOMAIN alias_map
                   /\ alias_map[companies[i].id] # alias_map[companies[j].id]
                   /\ Cardinality(KeepersOf(RawMarketKey(companies[i]))
                         \cap {k \in 1..Len(merged_companies) :
                                 merged_companies[k].id \in {alias_map[companies[i].id],
                                                             alias_map[companies[j].id]}}) = 1

\* The run after the market-key pass (lines 541-606).
AfterMarketPass(order) ==
    MarketConflicts(MarketUnion(AliasPass(Prepare(
        EmptyRun(companies, quotes, mentions,
                 [aliases |-> alias_payload, blocks |-> block_payload,
                  non_company |-> non_company_payload])), order)))

\* The raw ids united with root in run r.
ComponentOf(r, root) ==
    {id \in DOMAIN r.parent : find(r.parent, id) = find(r.parent, root)}

\* The output rows that came from input rows of company_id.
OutputRowsOf(company_id) ==
    {i \in 1..Len(merged_quotes) :
        \E j \in 1..Len(quotes) :
            quotes[j].id = merged_quotes[i].id /\ quotes[j].company_id = company_id}
    \cup
    {i \in 1..Len(merged_mentions) :
        \E j \in 1..Len(mentions) :
            mentions[j].id = merged_mentions[i].id /\ mentions[j].company_id = company_id}

\* C14: for every market key left with several components by the market-key
\* pass, every raw id of a non-primary component without quotes ends
\* quarantined as market_key_conflict_mentions_only and none of its rows is
\* in the output.
C14_MentionsOnlyQuarantined ==
    pc = "done" =>
        \A order \in IterationOrders(alias_pairs) :
            \A k \in 1..Len(AfterMarketPass(order).market_conflicts) :
                \A c \in 1..Len(AfterMarketPass(order).market_conflicts[k].components) :
                    LET component == AfterMarketPass(order).market_conflicts[k].components[c]
                        ids == ComponentOf(AfterMarketPass(order), component.root)
                    IN (/\ ~component.is_primary
                        /\ \A id \in ids : quote_count_by_company[id] = 0)
                           => \A id \in ids :
                                 /\ id \in DOMAIN quarantined_company_reason
                                 /\ quarantined_company_reason[id]
                                        = "market_key_conflict_mentions_only"
                                 /\ OutputRowsOf(id) = {}

\* The raw companies without quote rows and mention rows that are not
\* quarantined.
SilentSurvivors ==
    {i \in 1..Len(companies) :
        /\ quote_count_by_company[companies[i].id] = 0
        /\ mention_count_by_company[companies[i].id] = 0
        /\ companies[i].id \notin DOMAIN quarantined_company_reason}

\* The canonical companies that raw company i is mapped to.
CanonicalOf(i) ==
    {k \in 1..Len(merged_companies) :
        /\ companies[i].id \in DOMAIN alias_map
        /\ merged_companies[k].id = alias_map[companies[i].id]}

\* C17 as stated: a raw company without quotes and mentions that is not
\* quarantined is in the output as a single/medium canonical company.
C17_SilentIsSingleMedium ==
    pc = "done" =>
        \A i \in SilentSurvivors :
            /\ CanonicalOf(i) # {}
            /\ \A k \in CanonicalOf(i) :
                  /\ merged_companies[k].identity_source = "single"
                  /\ merged_companies[k].identity_confidence = "medium"

\* C17 amended: a raw company without quotes and mentions that is not
\* quarantined is mapped to one canonical company of the output, which is
\* single/medium when the raw company is its only member and it has no
\* market key.
C17_SilentAloneIsSingleMedium ==
    pc = "done" =>
        \A i \in SilentSurvivors :
            /\ Cardinality(CanonicalOf(i)) = 1
            /\ \A k \in CanonicalOf(i) :
                  (/\ \A id \in DOMAIN alias_map :
                         alias_map[id] = merged_companies[k].id => id = companies[i].id
                   /\ merged_companies[k].market_key = NoMarketKey)
                      => /\ merged_companies[k].identity_source = "single"
                         /\ merged_companies[k].identity_confidence = "medium"

\* A finished run with a raw company without rows that is alone in its
\* component and has no URL, next to one that is alone and has a market key.
C17_Witness ==
    /\ pc = "done"
    /\ \E i \in SilentSurvivors : \E k \in CanonicalOf(i) :
          /\ merged_companies[k].identity_source = "single"
          /\ merged_companies[k].url = None
    /\ \E i \in SilentSurvivors : \E k \in CanonicalOf(i) :
          merged_companies[k].identity_source = "market_key"

\* The raw companies that the pre-pass quarantines as non_company_label.
LabelledInPrePass ==
    {i \in 1..Len(companies) :
        strip(Text[companies[i].name]) # <<>> /\ IsNonCompanyLabel(companies[i].name)}

\* The run on the input without raw company i and without its rows.
RunWithout(i, order) ==
    MergeRun(EmptyRun(SelectSeq(companies, LAMBDA c : c.id # companies[i].id),
                      SelectSeq(quotes, LAMBDA row : row.company_id # companies[i].id),
                      SelectSeq(mentions, LAMBDA row : row.company_id # companies[i].id),
                      [aliases |-> alias_payload, blocks |-> block_payload,
                       non_company |-> non_company_payload]), order)

\* The market key of the canonical company of company_id in run r.
CanonicalMarketKey(r, company_id) ==
    (CHOOSE c \in SeqToSet(r.merged_companies) : c.id = r.alias_map[company_id]).market_key

\* C18: a raw company quarantined as non_company_label by the pre-pass is
\* united with no other raw id, is in no component of a market conflict, and
\* the run without it maps the surviving raw ids to the same groups with the
\* same market keys.
C18_LabelledTakesNoPart ==
    pc = "done" =>
        \A i \in LabelledInPrePass :
            /\ \A id \in RawIds \ {companies[i].id} :
                  find(parent, id) # find(parent, companies[i].id)
            /\ \A k \in 1..Len(market_conflicts) :
                  \A c \in 1..Len(market_conflicts[k].components) :
                      \A m \in 1..Len(market_conflicts[k].components[c].members) :
                          market_conflicts[k].components[c].members[m].id # companies[i].id
            /\ \A order \in IterationOrders(alias_pairs) :
                  /\ DOMAIN RunWithout(i, order).alias_map = DOMAIN alias_map
                  /\ \A a, b \in DOMAIN alias_map :
                        (alias_map[a] = alias_map[b])
                            <=> (RunWithout(i, order).alias_map[a]
                                     = RunWithout(i, order).alias_map[b])
                  /\ \A a \in DOMAIN alias_map :
                        CanonicalMarketKey(Run, a) = CanonicalMarketKey(RunWithout(i, order), a)

\* The name of the raw company with id company_id.
RawName(company_id) ==
    (CHOOSE c \in SeqToSet(companies) : c.id = company_id).name

\* C19: every two raw ids mapped to the same canonical id have compatible
\* names, in both argument orders.
C19_MergedPairwiseCompatible ==
    pc = "done" =>
        \A a, b \in DOMAIN alias_map :
            alias_map[a] = alias_map[b] =>
                /\ _are_company_names_compatible(RawName(a), RawName(b), alias_pairs, block_pairs)
                /\ _are_company_names_compatible(RawName(b), RawName(a), alias_pairs, block_pairs)


\* C20: the compatibility predicate gives the same answer for a pair of
\* names in both argument orders, under the rule sets of the run.
C20_CompatibleSymmetric ==
    pc = "done" =>
        \A i, j \in 1..Len(companies) :
            _are_company_names_compatible(companies[i].name, companies[j].name,
                                          alias_pairs, block_pairs)
                = _are_company_names_compatible(companies[j].name, companies[i].name,
                                                alias_pairs, block_pairs)

\* C15: the story mentions hold at most one row for a company and a story,
\* every row counts at least one mention, and every row is for one of the
\* canonical companies of the call.
C15_StoryMentionRows ==
    \A i \in 1..Len(story_mentions) :
        /\ story_mentions[i].mention_count >= 1
        /\ story_mentions[i].company_id \in CanonicalIds
        /\ \A j \in 1..Len(story_mentions) :
              (/\ story_mentions[j].company_id = story_mentions[i].company_id
               /\ story_mentions[j].story_id = story_mentions[i].story_id) => i = j

\* A finished call on two posts that both hold a story with id s1, in which
\* a company has a row for s1 with several mentions and the s1 of the later
\* post mentions the company too.
C15_Witness ==
    /\ pc = "story_done"
    /\ Len(dailybrief_posts) >= 2
    /\ dailybrief_posts[1] = PostCorpus[1]
    /\ dailybrief_posts[2] = PostCorpus[2]
    /\ \E i \in 1..Len(story_mentions) :
          /\ story_mentions[i].story_id = StoryText["s1"]
          /\ story_mentions[i].mention_count >= 2
          /\ \E m \in SeqToSet(MatchedCompanies(
                        IdsOf(merged_companies), alias_specs_by_company,
                        _normalize_alias_phrase(StoryText[PostCorpus[2].stories[1].text]))) :
                m[1] = story_mentions[i].company_id

\* The aliases in the spec list at position i of alias_specs_by_company.
SpecAliases(i) ==
    {alias_specs_by_company[i].v[s].alias : s \in 1..Len(alias_specs_by_company[i].v)}

\* The aliases that several companies have in aliases_by_company.
SharedAliases ==
    {alias \in UNION {aliases_by_company[i].v : i \in 1..Len(aliases_by_company)} :
        Cardinality(CompaniesWithAlias(aliases_by_company, alias)) > 1}

\* C16: once the alias specs are built no alias is in the spec lists of two
\* companies; an alias of several companies is in the list of the company
\* that alias_overrides names for it, and in no list without an override.
C16_AliasSpecsDisjoint ==
    pc \in {"story_posts", "story_done"} =>
        /\ \A i, j \in 1..Len(alias_specs_by_company) :
              i # j => SpecAliases(i) \cap SpecAliases(j) = {}
        /\ \A alias \in SharedAliases :
              \A i \in 1..Len(alias_specs_by_company) :
                  alias \in SpecAliases(i) =>
                      /\ alias \in DOMAIN alias_rules.alias_overrides
                      /\ alias_rules.alias_overrides[alias] = alias_specs_by_company[i].k

\* The alias specs are built, an alias of several companies is kept for the
\* company its override names, and another company still has an alias.
C16_Witness ==
    /\ pc = "story_posts"
    /\ \E alias \in SharedAliases :
          \E i, j \in 1..Len(alias_specs_by_company) :
              /\ alias \in SpecAliases(i)
              /\ alias \in aliases_by_company[j].v
              /\ alias \notin SpecAliases(j)
              /\ SpecAliases(j) # {}

\* The canonical company that raw id company_id is mapped to.
CanonicalCompanyOf(company_id) ==
    CHOOSE c \in SeqToSet(merged_companies) : c.id = alias_map[company_id]

\* The raw ids recorded in non-primary components with quotes of the market
\* conflicts.
DetachedIds ==
    {market_conflicts[k].components[c].members[m].id :
        <<k, c, m>> \in {t \in (1..Len(market_conflicts)) \X (1..MaxCompanies) \X (1..MaxCompanies) :
            /\ t[2] <= Len(market_conflicts[t[1]].components)
            /\ t[3] <= Len(market_conflicts[t[1]].components[t[2]].members)
            /\ ~market_conflicts[t[1]].components[t[2]].is_primary
            /\ market_conflicts[t[1]].components[t[2]].quote_count >= 1}}

\* C21: a raw company of a non-primary component with quotes of a market
\* conflict is not quarantined, and its canonical company has no market key
\* and no URL.
C21_DetachedKeptWithoutIdentity ==
    pc = "done" =>
        \A id \in DetachedIds :
            /\ id \notin DOMAIN quarantined_company_reason
            /\ id \in DOMAIN alias_map
            /\ CanonicalCompanyOf(id).market_key = NoMarketKey
            /\ CanonicalCompanyOf(id).url = None

\* The raw companies whose raw normalized name is in allow_names.
AllowedByName ==
    {i \in 1..Len(companies) :
        _normalize_name_key(strip(Text[companies[i].name])) \in non_company_rules.allow_name_keys}

\* C22: a raw company whose raw normalized name is in allow_names is not
\* quarantined as non_company_label.
C22_AllowedNeverLabelled ==
    pc = "done" =>
        \A i \in AllowedByName :
            ~(/\ companies[i].id \in DOMAIN quarantined_company_reason
              /\ quarantined_company_reason[companies[i].id] = "non_company_label")

\* alias_overrides names company_id for alias.
OverrideNames(alias, company_id) ==
    /\ alias \in DOMAIN alias_rules.alias_overrides
    /\ alias_rules.alias_overrides[alias] = company_id

\* C23 as stated: once the alias specs are built, an alias of a company is
\* in its spec list exactly when alias_overrides names the company for it or
\* the alias is an alias of exactly one company.
C23_RetainedIffOverrideOrUnique ==
    pc \in {"story_posts", "story_done"} =>
        \A i \in 1..Len(aliases_by_company) :
            /\ alias_specs_by_company[i].k = aliases_by_company[i].k
            /\ \A alias \in aliases_by_company[i].v :
                  alias \in SpecAliases(i)
                      <=> \/ OverrideNames(alias, aliases_by_company[i].k)
                          \/ Cardinality(CompaniesWithAlias(aliases_by_company, alias)) = 1

\* The normalized texts of the stories that the call scans.
ScannedTexts ==
    UNION {{_normalize_alias_phrase(strip(StoryText[dailybrief_posts[p].stories[s].text])) :
               s \in 1..Len(dailybrief_posts[p].stories)} :
           p \in {q \in 1..Len(dailybrief_posts) :
                     strip(StoryText[dailybrief_posts[q].url]) # <<>>}} \ {<<>>}

\* The spans that _count_story_mentions accepts for company i in text.
AcceptedSpans(text, i) ==
    OccupiedSpans(text, alias_specs_by_company[i].v, <<>>)

\* The spans in spans are pairwise non-overlapping.
PairwiseDisjoint(spans) ==
    \A a, b \in 1..Len(spans) :
        a # b => (spans[a][2] <= spans[b][1] \/ spans[b][2] <= spans[a][1])

\* spans, the spans accepted for the spec list specs in text, are pairwise
\* non-overlapping matches of aliases of specs and hold every match of the
\* first alias.
SpansAccepted(text, specs, spans) ==
    /\ _count_story_mentions(text, specs) = Len(spans)
    /\ PairwiseDisjoint(spans)
    /\ \A span \in SeqToSet(spans) :
          \E a \in 1..Len(specs) :
              /\ span[2] - span[1] = Len(specs[a].alias)
              /\ PatternMatchesAt(text, specs[a].alias, span[1])
    /\ specs # <<>> => SeqToSet(finditer(text, specs[1].alias, 1)) \subseteq SeqToSet(spans)
    /\ Len(specs) = 1 => Len(spans) = Len(finditer(text, specs[1].alias, 1))

\* C24: the aliases of a company are scanned longest first; the count is the
\* number of accepted spans, each a match of one of the aliases, and the
\* accepted spans are pairwise non-overlapping; every match of the first
\* alias is counted, so a single alias found twice counts two; the count of
\* a row is the count of its company in a story with the id of the row.
C24_CountsDisjointSpans ==
    pc = "story_done" =>
        /\ \A i \in 1..Len(alias_specs_by_company) :
              /\ \A a, b \in 1..Len(alias_specs_by_company[i].v) :
                    a < b => Len(alias_specs_by_company[i].v[a].alias)
                                >= Len(alias_specs_by_company[i].v[b].alias)
              /\ \A text \in ScannedTexts :
                    SpansAccepted(text, alias_specs_by_company[i].v, AcceptedSpans(text, i))
        /\ \A r \in 1..Len(story_mentions) :
              \E i \in 1..Len(alias_specs_by_company), text \in ScannedTexts :
                  /\ alias_specs_by_company[i].k = story_mentions[r].company_id
                  /\ story_mentions[r].mention_count = Len(AcceptedSpans(text, i))

\* A finished call with a row that counts two for a company with a single
\* alias, and a company for which a match of a shorter alias was passed over
\* because it overlaps an accepted span while two spans were accepted.
C24_Witness ==
    /\ pc = "story_done"
    /\ \E r \in 1..Len(story_mentions) :
          \E i \in 1..Len(alias_specs_by_company) :
              /\ alias_specs_by_company[i].k = story_mentions[r].company_id
              /\ Len(alias_specs_by_company[i].v) = 1
              /\ story_mentions[r].mention_count = 2
    /\ \E i \in 1..Len(alias_specs_by_company), text \in ScannedTexts :
          /\ Len(AcceptedSpans(text, i)) >= 2
          /\ \E a \in 2..Len(alias_specs_by_company[i].v) :
                SeqToSet(finditer(text, alias_specs_by_company[i].v[a].alias, 1))
                    \ SeqToSet(AcceptedSpans(text, i)) # {}

\* C25: the spec list of a company is ordered by descending length of the
\* alias and, among aliases of equal length, by alias string; and every
\* spec dict that _build_company_alias_specs can return for the alias sets
\* gives every company the same count in every scanned text.
C25_ScanOrderDetermined ==
    pc \in {"story_posts", "story_done"} =>
        /\ \A i \in 1..Len(alias_specs_by_company) :
              LET specs == alias_specs_by_company[i].v
              IN \A a, b \in 1..Len(specs) :
                    a < b => \/ Len(specs[a].alias) > Len(specs[b].alias)
                             \/ /\ Len(specs[a].alias) = Len(specs[b].alias)
                                /\ StrLess(specs[a].alias, specs[b].alias)
        /\ \A other \in _build_company_alias_specs(aliases_by_company, alias_rules) :
              \A i \in 1..Len(alias_specs_by_company), text \in ScannedTexts :
                  _count_story_mentions(text, other[i].v)
                      = _count_story_mentions(text, alias_specs_by_company[i].v)

\* The raw ids mapped to canonical company k.
MembersOf(k) ==
    {id \in DOMAIN alias_map : alias_map[id] = merged_companies[k].id}

\* The market keys that the members of canonical company k still carry.
MarketKeysOf(k) ==
    {market_key_by_company_id[id] : id \in MembersOf(k)} \ {NoMarketKey}

\* The identity_source and identity_confidence of canonical company k.
IdentityOf(k) ==
    <<merged_companies[k].identity_source, merged_companies[k].identity_confidence>>

\* C26: the identity of a canonical company follows the number of its
\* members, their market keys and its canonical URL, and the confidence is
\* high only for a canonical company with a market key.
C26_IdentityTable ==
    pc = "done" =>
        \A k \in 1..Len(merged_companies) :
            /\ IdentityOf(k) =
                  IF Cardinality(MembersOf(k)) = 1
                  THEN (IF merged_companies[k].url = None THEN <<"single", "medium">>
                        ELSE <<"market_key", "high">>)
                  ELSE IF Cardinality(MarketKeysOf(k)) = 1 THEN <<"market_key+name", "high">>
                  ELSE IF Cardinality(MarketKeysOf(k)) > 1 THEN <<"market_key+name", "medium">>
                  ELSE <<"name", "medium">>
            /\ merged_companies[k].identity_confidence = "high"
                  => merged_companies[k].market_key # NoMarketKey

\* A finished run with a canonical company of several members with two
\* market keys next to a canonical company with a single member.
C26_Witness ==
    /\ pc = "done"
    /\ \E k, j \in 1..Len(merged_companies) :
          /\ IdentityOf(k) = <<"market_key+name", "medium">>
          /\ IdentityOf(j) = <<"single", "medium">>
          /\ Cardinality(MembersOf(j)) = 1

\* Raw ids a and b are not quarantined and carry different market keys.
KeysDiffer(a, b) ==
    /\ a \notin DOMAIN quarantined_company_reason
    /\ b \notin DOMAIN quarantined_company_reason
    /\ market_key_by_company_id[a] # NoMarketKey
    /\ market_key_by_company_id[b] # NoMarketKey
    /\ market_key_by_company_id[a] # market_key_by_company_id[b]

\* C27: the cross-bucket pass unites no two raw ids with different market
\* keys that were in different components before the pass.
C27_CrossBucketKeepsKeysApart ==
    [][DoCrossBucket =>
          \A a, b \in DOMAIN parent :
              (KeysDiffer(a, b) /\ find(parent', a) = find(parent', b))
                  => find(parent, a) = find(parent, b)]_vars

\* C28: a raw company that the pre-pass quarantines as non_company_label has
\* reason non_company_label in the quarantine table of the report.
C28_LabelReasonKept ==
    pc = "done" =>
        \A i \in LabelledInPrePass :
            \E q \in 1..Len(resolution_report.quarantined_companies) :
                /\ resolution_report.quarantined_companies[q].id = companies[i].id
                /\ resolution_report.quarantined_companies[q].reason = "non_company_label"

\* The tokens of a normalized story text.
StoryTokens(text) ==
    SeqToSet(SplitFrom(text, " ", 1, <<>>))

\* The first-token test passes over company i for text.
Rejected(text, i) ==
    /\ alias_specs_by_company[i].v # <<>>
    /\ \A a \in 1..Len(alias_specs_by_company[i].v) :
          alias_specs_by_company[i].v[a].first_token \notin StoryTokens(text)

\* The companies that a story mentions when the first-token test is left
\* out, with the counts.
MatchedWithoutRejection(company_ids, specs_by_company, text) ==
    LET alias_specs(company_id) ==
            IF DictHas(specs_by_company, company_id)
            THEN DictGet(specs_by_company, company_id) ELSE <<>>
        matched(company_id) == _count_story_mentions(text, alias_specs(company_id)) > 0
        matched_ids == SelectSeq(company_ids, matched)
    IN [i \in 1..Len(matched_ids) |->
           <<matched_ids[i], _count_story_mentions(text, alias_specs(matched_ids[i]))>>]

\* C29: a company that the first-token test passes over has no mention in
\* the text, and the matched companies of every scanned text are the same
\* with and without the test.
C29_FirstTokenRejectionSound ==
    pc = "story_done" =>
        \A text \in ScannedTexts :
            /\ \A i \in 1..Len(alias_specs_by_company) :
                  Rejected(text, i)
                      => _count_story_mentions(text, alias_specs_by_company[i].v) = 0
            /\ MatchedCompanies(IdsOf(merged_companies), alias_specs_by_company, text)
                  = MatchedWithoutRejection(IdsOf(merged_companies),
                                            alias_specs_by_company, text)

\* A finished call in which the first-token test passed over a company for
\* a text that mentions another company.
C29_Witness ==
    /\ pc = "story_done"
    /\ story_mentions # <<>>
    /\ \E text \in ScannedTexts :
          \E i, j \in 1..Len(alias_specs_by_company) :
              /\ Rejected(text, i)
              /\ ~Rejected(text, j)
              /\ _count_story_mentions(text, alias_specs_by_company[j].v) > 0

\* C30: the counts of the report agree with the returned data: every input
\* company is quarantined or in alias_map, the canonical companies are the
\* targets of alias_map, and the merged groups are the canonical companies
\* with several raw ids.
C30_CountsAgree ==
    pc = "done" =>
        LET counts == resolution_report.counts
        IN /\ counts.input_companies
                 = counts.quarantined_companies + Cardinality(DOMAIN alias_map)
           /\ counts.quarantined_companies = Len(resolution_report.quarantined_companies)
           /\ counts.canonical_companies
                 = Cardinality({alias_map[id] : id \in DOMAIN alias_map})
           /\ counts.canonical_companies = Len(merged_companies)
           /\ counts.merged_groups
                 = Cardinality({k \in 1..Len(merged_companies) :
                                   Cardinality(MembersOf(k)) >= 2})

\* A finished run in which the refinement split a component into clusters,
\* one of them with several raw ids.
C30_Witness ==
    /\ pc = "done"
    /\ \E e \in 1..Len(grouped_company_ids) : Len(grouped_company_ids[e].k) = 2
    /\ resolution_report.counts.merged_groups >= 1
    /\ resolution_report.counts.canonical_companies >= 2
====
